---- MODULE Spec2Model ----
(***************************************************************************)
(* Control plane of the local music generator: the model lifecycle state   *)
(* machine (backend/models/model_manager.py) and the generation            *)
(* orchestrator (backend/models/music_generator.py).                       *)
(*                                                                         *)
(* Event-loop code is atomic between suspension points (await); the model  *)
(* loading routine and the generation routine run in worker threads and    *)
(* interleave with everything.  Steps taken while the transition lock is   *)
(* held are split at every write of the lifecycle status so that each      *)
(* status change is a step of its own.                                     *)
(***************************************************************************)
EXTENDS Integers, Sequences, FiniteSets, TLC

\* ---------------------------------------------------------------- bounds
NumCallers == 2
MaxLoads == 2
MaxTasks == 2
\* ResourceMonitor(history_size=...): capacity of the resource history (the default is 1000)
history_size == 3
\* number of sampling ticks of the monitor loop
MaxTicks == 5
\* NotificationSystem(max_history=...): capacity of the notification history (the default is 1000)
max_history == 2
\* bound: the number of sampling loops that may be alive without being referred to
MaxStray == 2
\* number of Notification objects created
MaxNotifications == 4
\* minutes the clock runs
MaxTime == 5

\* ------------------------------------------------------ program constants
max_memory_usage == 80
MinFreeDiskGB == 5
PromptMinLen == 3
PromptMaxLen == 500
max_completed_requests == 100

DEFAULT_MODEL == "facebook/musicgen-small"

supported_models == {"facebook/musicgen-small", "facebook/musicgen-medium", "facebook/musicgen-large"}

min_memory_gb(n) == CASE n = "facebook/musicgen-small" -> 2
                      [] n = "facebook/musicgen-medium" -> 6
                      [] n = "facebook/musicgen-large" -> 12
                      [] OTHER -> 2

\* ----------------------------------------------------------------- inputs
Callers == 1..NumCallers
NoCaller == 0
Tasks == 1..MaxTasks
NoName == ""
ModelNames == {NoName, "facebook/musicgen-medium", "unknown/model"}
TotalMemoryGBs == {4, 8}
MemoryPercents == {80, 81}
FreeDiskGBs == {4, 5}
NoSnapshot == [memory_percent |-> 0, free_space_gb |-> 0, read |-> FALSE]
Snapshots == {[memory_percent |-> m, free_space_gb |-> d, read |-> TRUE] : m \in MemoryPercents, d \in FreeDiskGBs}
LoadOutcomes == {"ok", "fail_processor", "fail_model", "fail_after_model"}
PromptLens == {0, 2, 3, 500, 501}
Prompts == {[len |-> l, banned |-> b] : l \in PromptLens, b \in BOOLEAN} \ {[len |-> l, banned |-> TRUE] : l \in {0, 2, 3}}

None == "None"
MsgUnsupported == "Model is not supported"
MsgRequirements == "Model requirements not met"
MsgResources == "Insufficient system resources to load model"
MsgComponents == "Failed to load model components"

VARIABLES
  status,            \* model_info.status
  name,              \* model_info.name
  loaded_at,         \* model_info.loaded_at (0 = None, else the ordinal of the load that set it)
  error_message,     \* model_info.error_message
  inference_count,   \* model_info.inference_count
  model,             \* self.model is not None
  processor,         \* self.processor is not None
  lock,              \* holder of self._lock, NoCaller when free
  snapshot,          \* resource readings taken by the running load, NoSnapshot outside it
  loadCalls,         \* number of invocations of _load_model_sync so far
  orphans,           \* load threads still running after their awaiting caller was cancelled
  cpc,               \* position of each caller inside load_model / unload_model
  carg,              \* model_name argument of the running load
  cthen,             \* "load" when the caller's unload is the first half of a forced reload
  cexc,              \* message of the exception in flight inside load_model
  cret,              \* what the caller's last call returned or raised
  next_id,           \* number of GenerationRequests registered so far
  req_status,        \* request.status
  progress,          \* request.progress
  cancelled,         \* request._cancelled
  result_path,       \* request.result_path is not None
  file_written,      \* the audio file of the request has been written to output_dir
  req_error,         \* request.error_message
  active_requests,   \* keys of MusicGenerator.active_requests
  completed_requests,\* keys of MusicGenerator.completed_requests
  tpc,               \* position of the task's worker (coroutine and executor thread)
  engineCalls,       \* number of model.generate invocations made for the task
  cancelAt,          \* worker position at which cancel_request first hit the task
  finalized,         \* request ids in the order their workers ran the finally block
  nSubmit,           \* parity of the number of generate_music calls made so far
  lastSubmit,        \* prompt and outcome of the last generate_music call
  lastCancel,        \* id, return value and whereabouts of the id at the last cancel_request call
  params,            \* the dict handed to ParameterValidator.validate_parameters
  validation_result, \* what validate_parameters returned for params
  revalidation_result, \* what validate_parameters returned for the cleaned_params of validation_result
  is_monitoring,     \* ResourceMonitor.is_monitoring
  monitor_task,      \* the task self.monitor_task refers to: "none", "running", "cancelled" by stop, or "ended" by an exception
  stopping,          \* number of stop_monitoring calls suspended awaiting the task they cancelled
  triggered,         \* the warning types the last _check_thresholds call passed to _trigger_warning
  stray_loops,       \* number of _monitor_loop tasks alive that self.monitor_task no longer refers to
  resource_history,  \* ResourceMonitor.resource_history, oldest first
  last_snapshot,     \* ResourceMonitor._last_snapshot
  samples,           \* number of snapshots taken so far; a snapshot's timestamp is its ordinal
  appended,          \* every snapshot appended since the history was constructed or cleared
  trend_result,      \* what the last get_resource_trend call returned
  summary_result,    \* what the last get_resource_summary call returned
  now,               \* datetime.now(), in minutes since the notification system was constructed
  rule_enabled,      \* rule.enabled of each NotificationRule
  last_triggered,    \* rule.last_triggered of each NotificationRule (Never = None)
  notifications,     \* NotificationSystem.notifications, oldest first
  next_nid,          \* number of Notification objects created so far; a notification's id is its ordinal
  channels,          \* names of the channels in NotificationSystem.channels
  channel_enabled,   \* channel.enabled of each channel
  total_sent,        \* stats["total_sent"]
  failed_sends,      \* stats["failed_sends"]
  npc,               \* position of each caller inside check_and_notify / send_notification
  ndata,             \* data argument of the caller's check_and_notify
  nidx,              \* index of the rule the caller's check_and_notify loop is at
  nsent,             \* the notification the caller's send_notification was given
  npending,          \* channels whose send task of the caller's gather has not finished
  nresults,          \* per channel, the result gather collected in the caller's last send
  fire_log           \* every firing of a rule so far, in order: the rule and the time

mvars == <<status, name, loaded_at, error_message, model, processor, lock, snapshot, loadCalls, orphans, cpc, carg, cthen, cexc, cret>>
gvars == <<next_id, req_status, progress, cancelled, result_path, file_written, req_error, active_requests, completed_requests, tpc, engineCalls, cancelAt, finalized, nSubmit, lastSubmit, lastCancel>>
pvars == <<params, validation_result, revalidation_result>>
qvars == <<trend_result, summary_result>>
rvars == <<is_monitoring, monitor_task, stopping, stray_loops, triggered, resource_history, last_snapshot, samples, appended, qvars>>
svars == <<now, rule_enabled, last_triggered, notifications, next_nid, channels, channel_enabled, total_sent, failed_sends, npc, ndata, nidx, nsent, npending, nresults, fire_log>>
nvars == <<pvars, rvars, svars>>
vars == <<mvars, gvars, inference_count, nvars>>

\* ModelState fields named by the lifecycle contract
ModelState == <<status, name, loaded_at, error_message>>

NoCancel == [task |-> 0, result |-> FALSE, found |-> "unknown"]
NoSubmit == [prompt |-> [len |-> 0, banned |-> FALSE], result |-> "none", task |-> 0]

\* no validate_parameters call made
NoParams == [prompt |-> [len |-> 0, pad |-> 0]]
NoResult == [called |-> FALSE]

PInit ==
  /\ params = NoParams
  /\ validation_result = NoResult
  /\ revalidation_result = NoResult

\* gpu_memory_used_mb of a snapshot taken without CUDA (None)
NoGpu == 0 - 1
\* ResourceSnapshot with the fields the thresholds, the trend and the summary read; percentages
\* are counted in tenths of a percent (80.0 is 800), and so is gpu_memory_used_mb, in tenths of
\* a percent of gpu_memory_total_mb; timestamp 0 stands for no snapshot (None)
NoSnapshotYet == [timestamp |-> 0, cpu_percent |-> 0, memory_percent |-> 0, disk_percent |-> 0,
                  gpu_memory_used_mb |-> NoGpu]

RInit ==
  /\ is_monitoring = FALSE
  /\ monitor_task = "none"
  /\ stopping = 0
  /\ stray_loops = 0
  /\ triggered = {}
  /\ resource_history = <<>>
  /\ last_snapshot = NoSnapshotYet
  /\ samples = 0
  /\ appended = <<>>
  /\ trend_result = NoResult
  /\ summary_result = NoResult

\* NotificationSystem.rules, in the order _setup_default_rules adds them (the two CPU rules)
rules == <<"cpu_warning", "cpu_critical">>
Rules == {rules[i] : i \in 1..Len(rules)}
\* the default rules that fire on an event rather than on a resource reading, in that order
event_rules == <<"model_load_error", "model_load_success">>
\* the CPU rules followed by the event rules, as they follow each other in NotificationSystem.rules
all_rules == rules \o event_rules
AllRules == {all_rules[i] : i \in 1..Len(all_rules)}
cooldown_minutes == [cpu_warning |-> 5, cpu_critical |-> 2, model_load_error |-> 1, model_load_success |-> 1]
\* the value each event rule's condition_func compares data["event"] with
rule_event == [model_load_error |-> "model_load_failed", model_load_success |-> "model_loaded"]
\* the replacement fields of each rule's title_template and message_template
template_vars == [cpu_warning |-> {"cpu_percent"}, cpu_critical |-> {"cpu_percent"},
                  model_load_error |-> {"model_name", "error_message"},
                  model_load_success |-> {"model_name", "device"}]
\* the bound each rule's condition_func compares data["cpu_percent"] with
rule_threshold == [cpu_warning |-> 80, cpu_critical |-> 95]
\* the channels there are: the default LogChannel and a WebhookChannel that may be added
Channels == {"log", "webhook"}
Never == 0 - 1
\* a data map: its cpu_percent, its event ("none" when it has no such key) and its other keys
NoData == [cpu_percent |-> 0, event |-> "none", keys |-> {}]
NoNotification == [id |-> 0, source |-> "none", generic |-> FALSE, timestamp |-> 0, acknowledged |-> FALSE,
                   acknowledged_at |-> Never, acknowledged_by |-> "none",
                   resolved |-> FALSE, resolved_at |-> Never]

\* NotificationSystem.__init__
SInit ==
  /\ now = 0
  /\ rule_enabled = [r \in AllRules |-> TRUE]
  /\ last_triggered = [r \in AllRules |-> Never]
  /\ notifications = <<>>
  /\ next_nid = 0
  /\ channels = {"log"}
  /\ channel_enabled = [ch \in Channels |-> TRUE]
  /\ total_sent = 0
  /\ failed_sends = 0
  /\ npc = [c \in Callers |-> "idle"]
  /\ ndata = [c \in Callers |-> NoData]
  /\ nidx = [c \in Callers |-> 0]
  /\ nsent = [c \in Callers |-> NoNotification]
  /\ npending = [c \in Callers |-> {}]
  /\ nresults = [c \in Callers |-> [ch \in Channels |-> "none"]]
  /\ fire_log = <<>>

\* the components outside the model manager and the generator, as constructed
NInit ==
  /\ PInit
  /\ RInit
  /\ SInit

\* the model manager and the generator as constructed
ControlPlaneInit ==
  /\ status = "not_loaded"
  /\ name = ""
  /\ loaded_at = 0
  /\ error_message = None
  /\ inference_count = 0
  /\ model = FALSE
  /\ processor = FALSE
  /\ lock = NoCaller
  /\ snapshot = NoSnapshot
  /\ loadCalls = 0
  /\ orphans = 0
  /\ cpc = [p \in Callers |-> "idle"]
  /\ carg = [p \in Callers |-> NoName]
  /\ cthen = [p \in Callers |-> "none"]
  /\ cexc = [p \in Callers |-> None]
  /\ cret = [p \in Callers |-> "none"]
  /\ next_id = 0
  /\ req_status = [t \in Tasks |-> "none"]
  /\ progress = [t \in Tasks |-> 0]
  /\ cancelled = [t \in Tasks |-> FALSE]
  /\ result_path = [t \in Tasks |-> FALSE]
  /\ file_written = [t \in Tasks |-> FALSE]
  /\ req_error = [t \in Tasks |-> None]
  /\ active_requests = {}
  /\ completed_requests = {}
  /\ tpc = [t \in Tasks |-> "none"]
  /\ engineCalls = [t \in Tasks |-> 0]
  /\ cancelAt = [t \in Tasks |-> "never"]
  /\ finalized = <<>>
  /\ nSubmit = 0
  /\ lastSubmit = NoSubmit
  /\ lastCancel = NoCancel

Init == ControlPlaneInit /\ NInit

\* ============================================================ ModelManager

is_ready == status = "loaded" /\ model /\ processor

is_model_supported(n) == n \in supported_models

validate_model_requirements(n, total_memory_gb) == total_memory_gb >= min_memory_gb(n)

\* the resource gate with the disk check left out
_check_system_resources_memory_only(s) ==
  ~(s.memory_percent > max_memory_usage)

_check_system_resources(s) ==
  /\ ~(s.memory_percent > max_memory_usage)
  /\ ~(s.free_space_gb < MinFreeDiskGB)

\* the metric that makes _check_system_resources return False on the readings s: memory is
\* looked at first, the disk only when memory passes
OffendingMetric(s) ==
  IF s.memory_percent > max_memory_usage THEN "memory"
  ELSE IF s.free_space_gb < MinFreeDiskGB THEN "disk"
  ELSE "none"

\* the metrics an exception message of load_model names: the message of the resource gate is a
\* fixed text (the offending metric goes to the log only)
MetricsNamed(msg) == {}

ExcType(msg) == IF msg \in {MsgRequirements, MsgResources} THEN "ResourceLimitExceededError" ELSE "ModelLoadError"

\* a lock that never makes anyone wait
LockFree_Always == TRUE

LockFree == lock = NoCaller

\* the call of caller p ends with outcome r and leaves the "async with" block
Leave(p, r) ==
  /\ lock' = IF lock = p THEN NoCaller ELSE lock
  /\ cpc' = [cpc EXCEPT ![p] = "idle"]
  /\ carg' = [carg EXCEPT ![p] = NoName]
  /\ cexc' = [cexc EXCEPT ![p] = None]
  /\ cthen' = [cthen EXCEPT ![p] = "none"]
  /\ cret' = [cret EXCEPT ![p] = r]
  /\ snapshot' = NoSnapshot

\* callers that may still hand _load_model_sync to a thread
PendingLoads == {p \in Callers : cpc[p] \in {"load_wait", "load_check", "load_resources"} \/ cthen[p] = "load"}

\* bound: a load may be requested while fewer than MaxLoads runs of _load_model_sync are made or pending
LoadBudget == loadCalls + Cardinality(PendingLoads) < MaxLoads

\* ModelManager.load_model is called directly (startup auto-load, reload)
LoadCall(p, n) ==
  /\ cpc[p] = "idle"
  /\ LoadBudget
  /\ cpc' = [cpc EXCEPT ![p] = "load_wait"]
  /\ carg' = [carg EXCEPT ![p] = n]
  /\ cret' = [cret EXCEPT ![p] = "none"]
  /\ UNCHANGED <<status, name, loaded_at, error_message, model, processor, lock, snapshot, loadCalls, orphans, cthen, cexc>>
  /\ UNCHANGED <<gvars, inference_count, nvars>>

\* POST /load handler: returns at once when loaded and not forced, unloads first when forced
ApiLoad(p, n, force) ==
  /\ cpc[p] = "idle"
  /\ LoadBudget
  /\ IF ~force /\ is_ready
       THEN /\ cret' = [cret EXCEPT ![p] = "True"]
            /\ UNCHANGED <<cpc, carg, cthen>>
       ELSE /\ cret' = [cret EXCEPT ![p] = "none"]
            /\ carg' = [carg EXCEPT ![p] = n]
            /\ IF force /\ is_ready
                 THEN /\ cpc' = [cpc EXCEPT ![p] = "unload_wait"]
                      /\ cthen' = [cthen EXCEPT ![p] = "load"]
                 ELSE /\ cpc' = [cpc EXCEPT ![p] = "load_wait"]
                      /\ UNCHANGED cthen
  /\ UNCHANGED <<status, name, loaded_at, error_message, model, processor, lock, snapshot, loadCalls, orphans, cexc>>
  /\ UNCHANGED <<gvars, inference_count, nvars>>

\* async with self._lock, entered by load_model
LoadAcquire(p) ==
  /\ cpc[p] = "load_wait"
  /\ LockFree
  /\ lock' = p
  /\ cpc' = [cpc EXCEPT ![p] = "load_check"]
  /\ UNCHANGED <<status, name, loaded_at, error_message, model, processor, snapshot, loadCalls, orphans, carg, cthen, cexc, cret>>
  /\ UNCHANGED <<gvars, inference_count, nvars>>

Raise(p, msg) ==
  /\ cpc' = [cpc EXCEPT ![p] = "load_except"]
  /\ cexc' = [cexc EXCEPT ![p] = msg]

\* load_model without the early return on LOADED: a loaded model is loaded again
LoadCheck_NoLoadedReturn(p, total_memory_gb) ==
  /\ cpc[p] = "load_check"
  /\ LET n == IF carg[p] = NoName THEN DEFAULT_MODEL ELSE carg[p] IN
     IF status = "loading"
       THEN /\ Leave(p, "False")
            /\ UNCHANGED <<status, name, error_message>>
     ELSE IF ~is_model_supported(n)
       THEN /\ Raise(p, MsgUnsupported)
            /\ UNCHANGED <<status, name, error_message, lock, carg, cthen, cret, snapshot>>
     ELSE IF ~validate_model_requirements(n, total_memory_gb)
       THEN /\ Raise(p, MsgRequirements)
            /\ UNCHANGED <<status, name, error_message, lock, carg, cthen, cret, snapshot>>
     ELSE /\ name' = n
          /\ status' = "loading"
          /\ error_message' = None
          /\ cpc' = [cpc EXCEPT ![p] = "load_resources"]
          /\ UNCHANGED <<lock, carg, cthen, cret, cexc, snapshot>>
  /\ UNCHANGED <<loaded_at, model, processor, loadCalls, orphans>>
  /\ UNCHANGED <<gvars, inference_count, nvars>>

\* load_model recording the requested name before it looks at the status
LoadCheck_NameFirst(p, total_memory_gb) ==
  /\ cpc[p] = "load_check"
  /\ LET n == IF carg[p] = NoName THEN DEFAULT_MODEL ELSE carg[p] IN
     /\ name' = n
     /\ IF status = "loading"
          THEN /\ Leave(p, "False")
               /\ UNCHANGED <<status, error_message>>
        ELSE IF status = "loaded"
          THEN /\ Leave(p, "True")
               /\ UNCHANGED <<status, error_message>>
        ELSE IF ~is_model_supported(n)
          THEN /\ Raise(p, MsgUnsupported)
               /\ UNCHANGED <<status, error_message, lock, carg, cthen, cret, snapshot>>
        ELSE IF ~validate_model_requirements(n, total_memory_gb)
          THEN /\ Raise(p, MsgRequirements)
               /\ UNCHANGED <<status, error_message, lock, carg, cthen, cret, snapshot>>
        ELSE /\ status' = "loading"
             /\ error_message' = None
             /\ cpc' = [cpc EXCEPT ![p] = "load_resources"]
             /\ UNCHANGED <<lock, carg, cthen, cret, cexc, snapshot>>
  /\ UNCHANGED <<loaded_at, model, processor, loadCalls, orphans>>
  /\ UNCHANGED <<gvars, inference_count, nvars>>

\* load_model from the status checks to the write of LOADING
LoadCheck(p, total_memory_gb) ==
  /\ cpc[p] = "load_check"
  /\ LET n == IF carg[p] = NoName THEN DEFAULT_MODEL ELSE carg[p] IN
     IF status = "loading"
       THEN /\ Leave(p, "False")
            /\ UNCHANGED <<status, name, error_message>>
     ELSE IF status = "loaded"
       THEN /\ Leave(p, "True")
            /\ UNCHANGED <<status, name, error_message>>
     ELSE IF ~is_model_supported(n)
       THEN /\ Raise(p, MsgUnsupported)
            /\ UNCHANGED <<status, name, error_message, lock, carg, cthen, cret, snapshot>>
     ELSE IF ~validate_model_requirements(n, total_memory_gb)
       THEN /\ Raise(p, MsgRequirements)
            /\ UNCHANGED <<status, name, error_message, lock, carg, cthen, cret, snapshot>>
     ELSE /\ name' = n
          /\ status' = "loading"
          /\ error_message' = None
          /\ cpc' = [cpc EXCEPT ![p] = "load_resources"]
          /\ UNCHANGED <<lock, carg, cthen, cret, cexc, snapshot>>
  /\ UNCHANGED <<loaded_at, model, processor, loadCalls, orphans>>
  /\ UNCHANGED <<gvars, inference_count, nvars>>

\* load_model from the resource gate to the hand-over of _load_model_sync to a thread
LoadResources(p, s) ==
  /\ cpc[p] = "load_resources"
  /\ snapshot' = s
  /\ IF ~_check_system_resources(s)
       THEN /\ Raise(p, MsgResources)
            /\ UNCHANGED loadCalls
       ELSE /\ cpc' = [cpc EXCEPT ![p] = "load_thread"]
            /\ loadCalls' = loadCalls + 1
            /\ UNCHANGED cexc
  /\ UNCHANGED <<status, name, loaded_at, error_message, model, processor, lock, orphans, carg, cthen, cret>>
  /\ UNCHANGED <<gvars, inference_count, nvars>>

\* what a run of _load_model_sync leaves in self.processor and self.model
ThreadEffect(o) ==
  /\ processor' = IF o \in {"ok", "fail_model", "fail_after_model"} THEN TRUE ELSE processor
  /\ model' = IF o \in {"ok", "fail_after_model"} THEN TRUE ELSE model

\* _load_model_sync finishes and the awaiting load_model resumes
LoadThread(p, o) ==
  /\ cpc[p] = "load_thread"
  /\ ThreadEffect(o)
  /\ IF o = "ok"
       THEN /\ cpc' = [cpc EXCEPT ![p] = "load_finish"]
            /\ UNCHANGED cexc
       ELSE Raise(p, MsgComponents)
  /\ UNCHANGED <<status, name, loaded_at, error_message, lock, snapshot, loadCalls, orphans, carg, cthen, cret>>
  /\ UNCHANGED <<gvars, inference_count, nvars>>

\* load_model after the thread returned: LOADED, loaded_at, return True
LoadFinish(p) ==
  /\ cpc[p] = "load_finish"
  /\ status' = "loaded"
  /\ loaded_at' = loadCalls
  /\ Leave(p, "True")
  /\ UNCHANGED <<name, error_message, model, processor, loadCalls, orphans>>
  /\ UNCHANGED <<gvars, inference_count, nvars>>

\* the except branch of load_model without the call of _cleanup_model
LoadExcept_NoCleanup(p) ==
  /\ cpc[p] = "load_except"
  /\ status' = "error"
  /\ error_message' = cexc[p]
  /\ Leave(p, ExcType(cexc[p]))
  /\ UNCHANGED <<name, loaded_at, loadCalls, orphans, model, processor>>
  /\ UNCHANGED <<gvars, inference_count, nvars>>

\* the except branch of load_model: ERROR, message, _cleanup_model, re-raise
LoadExcept(p) ==
  /\ cpc[p] = "load_except"
  /\ status' = "error"
  /\ error_message' = cexc[p]
  /\ model' = FALSE
  /\ processor' = FALSE
  /\ Leave(p, ExcType(cexc[p]))
  /\ UNCHANGED <<name, loaded_at, loadCalls, orphans>>
  /\ UNCHANGED <<gvars, inference_count, nvars>>

\* the task awaiting load_model is cancelled at its suspension point: CancelledError is not
\* an Exception, so the except branch is skipped, the lock is released and the thread runs on
LoadCancelled(p) ==
  /\ cpc[p] \in {"load_wait", "load_thread"}
  /\ orphans' = IF cpc[p] = "load_thread" THEN orphans + 1 ELSE orphans
  /\ Leave(p, "CancelledError")
  /\ UNCHANGED <<status, name, loaded_at, error_message, model, processor, loadCalls>>
  /\ UNCHANGED <<gvars, inference_count, nvars>>

\* a load thread whose caller is gone finishes
OrphanThread(o) ==
  /\ orphans > 0
  /\ orphans' = orphans - 1
  /\ ThreadEffect(o)
  /\ UNCHANGED <<status, name, loaded_at, error_message, lock, snapshot, loadCalls, cpc, carg, cthen, cexc, cret>>
  /\ UNCHANGED <<gvars, inference_count, nvars>>

\* ModelManager.unload_model is called (shutdown, reload, POST /unload)
UnloadCall(p) ==
  /\ cpc[p] = "idle"
  /\ cpc' = [cpc EXCEPT ![p] = "unload_wait"]
  /\ cret' = [cret EXCEPT ![p] = "none"]
  /\ UNCHANGED <<status, name, loaded_at, error_message, model, processor, lock, snapshot, loadCalls, orphans, carg, cthen, cexc>>
  /\ UNCHANGED <<gvars, inference_count, nvars>>

\* async with self._lock, entered by unload_model
UnloadAcquire(p) ==
  /\ cpc[p] = "unload_wait"
  /\ LockFree
  /\ lock' = p
  /\ cpc' = [cpc EXCEPT ![p] = "unload_check"]
  /\ UNCHANGED <<status, name, loaded_at, error_message, model, processor, snapshot, loadCalls, orphans, carg, cthen, cexc, cret>>
  /\ UNCHANGED <<gvars, inference_count, nvars>>

\* the call of caller p that was an unload ends; a forced reload goes on to load_model
LeaveUnload(p) ==
  /\ lock' = NoCaller
  /\ cthen' = [cthen EXCEPT ![p] = "none"]
  /\ IF cthen[p] = "load"
       THEN /\ cpc' = [cpc EXCEPT ![p] = "load_wait"]
            /\ UNCHANGED <<cret, carg>>
       ELSE /\ cpc' = [cpc EXCEPT ![p] = "idle"]
            /\ cret' = [cret EXCEPT ![p] = "True"]
            /\ carg' = [carg EXCEPT ![p] = NoName]

\* unload_model without the early return on NOT_LOADED
UnloadCheck_NoGuard(p) ==
  /\ cpc[p] = "unload_check"
  /\ status' = "unloading"
  /\ cpc' = [cpc EXCEPT ![p] = "unload_clean"]
  /\ UNCHANGED <<lock, cthen, cret, carg>>
  /\ UNCHANGED <<name, loaded_at, error_message, model, processor, snapshot, loadCalls, orphans, cexc>>
  /\ UNCHANGED <<gvars, inference_count, nvars>>

\* unload_model from the status check to the write of UNLOADING
UnloadCheck(p) ==
  /\ cpc[p] = "unload_check"
  /\ IF status = "not_loaded"
       THEN /\ LeaveUnload(p)
            /\ UNCHANGED status
       ELSE /\ status' = "unloading"
            /\ cpc' = [cpc EXCEPT ![p] = "unload_clean"]
            /\ UNCHANGED <<lock, cthen, cret, carg>>
  /\ UNCHANGED <<name, loaded_at, error_message, model, processor, snapshot, loadCalls, orphans, cexc>>
  /\ UNCHANGED <<gvars, inference_count, nvars>>

\* unload_model: _cleanup_model, NOT_LOADED, fields reset, return True
UnloadFinish(p) ==
  /\ cpc[p] = "unload_clean"
  /\ model' = FALSE
  /\ processor' = FALSE
  /\ status' = "not_loaded"
  /\ loaded_at' = 0
  /\ error_message' = None
  /\ LeaveUnload(p)
  /\ UNCHANGED <<name, snapshot, loadCalls, orphans, cexc>>
  /\ UNCHANGED <<gvars, inference_count, nvars>>

\* the task awaiting the lock for unload_model is cancelled
UnloadCancelled(p) ==
  /\ cpc[p] = "unload_wait"
  /\ Leave(p, "CancelledError")
  /\ UNCHANGED <<status, name, loaded_at, error_message, model, processor, loadCalls, orphans>>
  /\ UNCHANGED <<gvars, inference_count, nvars>>

\* the lifecycle operations issued by the callers P with model names N, machine memory sizes G, resource readings S, thread outcomes O
Lifecycle(P, N, G, S, O) ==
  \/ \E p \in P, n \in N : LoadCall(p, n)
  \/ \E p \in P, n \in N, force \in BOOLEAN : ApiLoad(p, n, force)
  \/ \E p \in P : LoadAcquire(p)
  \/ \E p \in P, g \in G : LoadCheck(p, g)
  \/ \E p \in P, s \in S : LoadResources(p, s)
  \/ \E p \in P, o \in O : LoadThread(p, o)
  \/ \E p \in P : LoadFinish(p)
  \/ \E p \in P : LoadExcept(p)
  \/ \E p \in P : LoadCancelled(p)
  \/ \E o \in O : OrphanThread(o)
  \/ \E p \in P : UnloadCall(p)
  \/ \E p \in P : UnloadAcquire(p)
  \/ \E p \in P : UnloadCheck(p)
  \/ \E p \in P : UnloadFinish(p)
  \/ \E p \in P : UnloadCancelled(p)

ManagerNext == Lifecycle(Callers, ModelNames, TotalMemoryGBs, Snapshots, LoadOutcomes)

SpecModel == Init /\ [][ManagerNext]_vars

\* ========================================================== MusicGenerator

\* validate_prompt with the lower length bound off by one
validate_prompt_off_by_one(pr) ==
  IF pr.len = 0 THEN {"empty"}
  ELSE (IF pr.len <= PromptMinLen THEN {"too_short"} ELSE {})
       \cup (IF pr.len > PromptMaxLen THEN {"too_long"} ELSE {})
       \cup (IF pr.banned THEN {"harmful"} ELSE {})

\* PromptProcessor.validate_prompt: the set of validation errors of a prompt
validate_prompt(pr) ==
  IF pr.len = 0 THEN {"empty"}
  ELSE (IF pr.len < PromptMinLen THEN {"too_short"} ELSE {})
       \cup (IF pr.len > PromptMaxLen THEN {"too_long"} ELSE {})
       \cup (IF pr.banned THEN {"harmful"} ELSE {})

\* ParameterValidator.validate_parameters on the default parameters: only the prompt can fail
validate_parameters(pr) == pr.len # 0

\* generate_music without the readiness check
SubmitOutcome_NoReadyCheck(pr) ==
  IF ~validate_parameters(pr) THEN "ValidationFailed"
  ELSE IF validate_prompt(pr) # {} THEN "ValidationFailed"
  ELSE "accepted"

\* generate_music looking at the readiness of the model before it validates anything
SubmitOutcome_ReadyFirst(pr) ==
  IF ~is_ready THEN "NotReady"
  ELSE IF ~validate_parameters(pr) THEN "ValidationFailed"
  ELSE IF validate_prompt(pr) # {} THEN "ValidationFailed"
  ELSE "accepted"

\* what generate_music answers to a prompt in the current state
SubmitOutcome(pr) ==
  IF ~validate_parameters(pr) THEN "ValidationFailed"
  ELSE IF validate_prompt(pr) # {} THEN "ValidationFailed"
  ELSE IF ~is_ready THEN "NotReady"
  ELSE "accepted"

\* MusicGenerator.generate_music with default parameters; T bounds the request ids it may hand out
Submit(pr, T) ==
  /\ nSubmit' = 1 - nSubmit
  /\ LET r == SubmitOutcome(pr) IN
     IF r = "accepted"
       THEN /\ next_id + 1 \in T
            /\ next_id' = next_id + 1
            /\ req_status' = [req_status EXCEPT ![next_id + 1] = "pending"]
            /\ active_requests' = active_requests \cup {next_id + 1}
            /\ tpc' = [tpc EXCEPT ![next_id + 1] = "scheduled"]
            /\ lastSubmit' = [prompt |-> pr, result |-> r, task |-> next_id + 1]
       ELSE /\ lastSubmit' = [prompt |-> pr, result |-> r, task |-> 0]
            /\ UNCHANGED <<next_id, req_status, active_requests, tpc>>
  /\ UNCHANGED <<progress, cancelled, result_path, file_written, req_error, completed_requests, finalized, engineCalls, cancelAt, lastCancel>>
  /\ UNCHANGED <<mvars, inference_count, nvars>>

\* the finally block of _generate_music_async: active -> completed, oldest evicted past the cap
Finalize(t) ==
  /\ active_requests' = active_requests \ {t}
  /\ LET c == completed_requests \cup {t} IN
     completed_requests' =
       IF Cardinality(c) > max_completed_requests
         THEN c \ {CHOOSE o \in c : \A x \in c : o <= x}
         ELSE c
  /\ tpc' = [tpc EXCEPT ![t] = "done"]
  /\ finalized' = Append(finalized, t)

\* _generate_music_async from its start to the await of the executor
WorkerStart(t) ==
  /\ tpc[t] = "scheduled"
  /\ req_status' = [req_status EXCEPT ![t] = "processing"]
  /\ progress' = [progress EXCEPT ![t] = 10]
  /\ IF cancelled[t]
       THEN Finalize(t)
       ELSE /\ tpc' = [tpc EXCEPT ![t] = "queued"]
            /\ UNCHANGED <<active_requests, completed_requests, finalized>>
  /\ UNCHANGED <<next_id, cancelled, result_path, file_written, req_error, engineCalls, cancelAt, nSubmit, lastSubmit, lastCancel>>
  /\ UNCHANGED <<mvars, inference_count, nvars>>

\* _generate_music_sync raises: wrapped into ModelInferenceError, delivered to the awaiting coroutine
SyncRaise(t) ==
  /\ tpc' = [tpc EXCEPT ![t] = "raised"]

\* _generate_music_sync: progress 20, model and processor fetched, progress 30
SyncBegin(t) ==
  /\ tpc[t] = "queued"
  /\ IF ~model \/ ~processor
       THEN /\ progress' = [progress EXCEPT ![t] = 20]
            /\ SyncRaise(t)
       ELSE /\ progress' = [progress EXCEPT ![t] = 30]
            /\ tpc' = [tpc EXCEPT ![t] = "sync_inputs"]
  /\ UNCHANGED <<next_id, req_status, cancelled, result_path, file_written, req_error, active_requests, completed_requests, finalized, engineCalls, cancelAt, nSubmit, lastSubmit, lastCancel>>
  /\ UNCHANGED <<mvars, inference_count, nvars>>

\* _generate_music_sync: the processor call and the move to the device, progress 40
SyncInputs(t, ok) ==
  /\ tpc[t] = "sync_inputs"
  /\ IF ok
       THEN /\ progress' = [progress EXCEPT ![t] = 40]
            /\ tpc' = [tpc EXCEPT ![t] = "sync_generate"]
       ELSE /\ SyncRaise(t)
            /\ UNCHANGED progress
  /\ UNCHANGED <<next_id, req_status, cancelled, result_path, file_written, req_error, active_requests, completed_requests, finalized, engineCalls, cancelAt, nSubmit, lastSubmit, lastCancel>>
  /\ UNCHANGED <<mvars, inference_count, nvars>>

\* _generate_music_sync: model.generate is invoked
SyncGenerate(t) ==
  /\ tpc[t] = "sync_generate"
  /\ engineCalls' = [engineCalls EXCEPT ![t] = @ + 1]
  /\ tpc' = [tpc EXCEPT ![t] = "inferring"]
  /\ UNCHANGED <<next_id, req_status, progress, cancelled, result_path, file_written, req_error, active_requests, completed_requests, finalized, cancelAt, nSubmit, lastSubmit, lastCancel>>
  /\ UNCHANGED <<mvars, inference_count, nvars>>

\* _generate_music_sync: model.generate returns or raises, progress 80
SyncInferred(t, ok) ==
  /\ tpc[t] = "inferring"
  /\ IF ok
       THEN /\ progress' = [progress EXCEPT ![t] = 80]
            /\ tpc' = [tpc EXCEPT ![t] = "sync_save"]
       ELSE /\ SyncRaise(t)
            /\ UNCHANGED progress
  /\ UNCHANGED <<next_id, req_status, cancelled, result_path, file_written, req_error, active_requests, completed_requests, finalized, engineCalls, cancelAt, nSubmit, lastSubmit, lastCancel>>
  /\ UNCHANGED <<mvars, inference_count, nvars>>

\* _generate_music_sync: progress 90, the file is written, progress 100, the path is returned
SyncSave(t, ok) ==
  /\ tpc[t] = "sync_save"
  /\ IF ok
       THEN /\ progress' = [progress EXCEPT ![t] = 100]
            /\ file_written' = [file_written EXCEPT ![t] = TRUE]
            /\ tpc' = [tpc EXCEPT ![t] = "returned"]
       ELSE /\ progress' = [progress EXCEPT ![t] = 90]
            /\ SyncRaise(t)
            /\ UNCHANGED file_written
  /\ UNCHANGED <<next_id, req_status, cancelled, result_path, req_error, active_requests, completed_requests, finalized, engineCalls, cancelAt, nSubmit, lastSubmit, lastCancel>>
  /\ UNCHANGED <<mvars, inference_count, nvars>>

\* _generate_music_async resubmitting a request whose executor call raised, once
WorkerResume_Retry(t) ==
  /\ tpc[t] \in {"returned", "raised"}
  /\ IF tpc[t] = "raised" /\ engineCalls[t] = 1
       THEN /\ tpc' = [tpc EXCEPT ![t] = "queued"]
            /\ UNCHANGED <<req_status, req_error, progress, result_path, inference_count>>
            /\ UNCHANGED <<active_requests, completed_requests, finalized>>
       ELSE /\ IF tpc[t] = "raised"
                 THEN /\ req_status' = [req_status EXCEPT ![t] = "failed"]
                      /\ req_error' = [req_error EXCEPT ![t] = "generation failed"]
                      /\ UNCHANGED <<progress, result_path, inference_count>>
                 ELSE IF ~cancelled[t]
                   THEN /\ req_status' = [req_status EXCEPT ![t] = "completed"]
                        /\ result_path' = [result_path EXCEPT ![t] = TRUE]
                        /\ progress' = [progress EXCEPT ![t] = 100]
                        /\ inference_count' = inference_count + 1
                        /\ UNCHANGED req_error
                   ELSE UNCHANGED <<req_status, req_error, progress, result_path, inference_count>>
            /\ Finalize(t)
  /\ UNCHANGED <<next_id, cancelled, file_written, engineCalls, cancelAt, nSubmit, lastSubmit, lastCancel>>
  /\ UNCHANGED <<mvars, nvars>>

\* _generate_music_async storing in the request the progress 0 that its except branch reports
WorkerResume_ResetProgress(t) ==
  /\ tpc[t] \in {"returned", "raised"}
  /\ IF tpc[t] = "raised"
       THEN /\ req_status' = [req_status EXCEPT ![t] = "failed"]
            /\ req_error' = [req_error EXCEPT ![t] = "generation failed"]
            /\ progress' = [progress EXCEPT ![t] = 0]
            /\ UNCHANGED <<result_path, inference_count>>
       ELSE IF ~cancelled[t]
         THEN /\ req_status' = [req_status EXCEPT ![t] = "completed"]
              /\ result_path' = [result_path EXCEPT ![t] = TRUE]
              /\ progress' = [progress EXCEPT ![t] = 100]
              /\ inference_count' = inference_count + 1
              /\ UNCHANGED req_error
         ELSE UNCHANGED <<req_status, req_error, progress, result_path, inference_count>>
  /\ Finalize(t)
  /\ UNCHANGED <<next_id, cancelled, file_written, engineCalls, cancelAt, nSubmit, lastSubmit, lastCancel>>
  /\ UNCHANGED <<mvars, nvars>>

\* _generate_music_async recording an inference for every executor call that returned a
\* result, cancelled or not
WorkerResume_RecordsCancelled(t) ==
  /\ tpc[t] \in {"returned", "raised"}
  /\ IF tpc[t] = "raised"
       THEN /\ req_status' = [req_status EXCEPT ![t] = "failed"]
            /\ req_error' = [req_error EXCEPT ![t] = "generation failed"]
            /\ UNCHANGED <<progress, result_path, inference_count>>
       ELSE IF ~cancelled[t]
         THEN /\ req_status' = [req_status EXCEPT ![t] = "completed"]
              /\ result_path' = [result_path EXCEPT ![t] = TRUE]
              /\ progress' = [progress EXCEPT ![t] = 100]
              /\ inference_count' = inference_count + 1
              /\ UNCHANGED req_error
         ELSE /\ inference_count' = inference_count + 1
              /\ UNCHANGED <<req_status, req_error, progress, result_path>>
  /\ Finalize(t)
  /\ UNCHANGED <<next_id, cancelled, file_written, engineCalls, cancelAt, nSubmit, lastSubmit, lastCancel>>
  /\ UNCHANGED <<mvars, nvars>>

\* _generate_music_async after the executor call: result handling, except branch, finally
WorkerResume(t) ==
  /\ tpc[t] \in {"returned", "raised"}
  /\ IF tpc[t] = "raised"
       THEN /\ req_status' = [req_status EXCEPT ![t] = "failed"]
            /\ req_error' = [req_error EXCEPT ![t] = "generation failed"]
            /\ UNCHANGED <<progress, result_path, inference_count>>
       ELSE IF ~cancelled[t]
         THEN /\ req_status' = [req_status EXCEPT ![t] = "completed"]
              /\ result_path' = [result_path EXCEPT ![t] = TRUE]
              /\ progress' = [progress EXCEPT ![t] = 100]
              /\ inference_count' = inference_count + 1
              /\ UNCHANGED req_error
         ELSE UNCHANGED <<req_status, req_error, progress, result_path, inference_count>>
  /\ Finalize(t)
  /\ UNCHANGED <<next_id, cancelled, file_written, engineCalls, cancelAt, nSubmit, lastSubmit, lastCancel>>
  /\ UNCHANGED <<mvars, nvars>>

\* GenerationRequest.cancel
cancel(t) ==
  /\ cancelled' = [cancelled EXCEPT ![t] = TRUE]
  /\ req_status' = [req_status EXCEPT ![t] = IF @ \in {"pending", "processing"} THEN "cancelled" ELSE @]

\* where cancel_request finds a request id
Whereabouts(t) ==
  IF t \in active_requests THEN "active"
  ELSE IF t \in completed_requests THEN "completed"
  ELSE "unknown"

\* MusicGenerator.cancel_request: request.cancel() for an id of active_requests, nothing for
\* any other id
cancel_request(t) ==
  /\ IF t \in active_requests
       THEN /\ cancel(t)
            /\ cancelAt' = [cancelAt EXCEPT ![t] = IF @ = "never" THEN tpc[t] ELSE @]
       ELSE UNCHANGED <<cancelled, req_status, cancelAt>>
  /\ UNCHANGED <<next_id, progress, result_path, file_written, req_error, active_requests, completed_requests, finalized, tpc, engineCalls, nSubmit, lastSubmit>>
  /\ UNCHANGED <<mvars, inference_count, nvars>>

\* cancel_request called by a client that does not look at the answer
CancelRequest(t) ==
  /\ cancel_request(t)
  /\ UNCHANGED lastCancel

\* cancel_request looking the id up in the completed requests as well
CancelCall_AnyRegistered(t) ==
  /\ lastCancel' = [task |-> t, result |-> t \in active_requests \cup completed_requests, found |-> Whereabouts(t)]
  /\ IF t \in active_requests \cup completed_requests
       THEN /\ cancel(t)
            /\ cancelAt' = [cancelAt EXCEPT ![t] = IF @ = "never" THEN tpc[t] ELSE @]
       ELSE UNCHANGED <<cancelled, req_status, cancelAt>>
  /\ UNCHANGED <<next_id, progress, result_path, file_written, req_error, active_requests, completed_requests, finalized, tpc, engineCalls, nSubmit, lastSubmit>>
  /\ UNCHANGED <<mvars, inference_count, nvars>>

\* cancel_request called by a client that keeps the answer: True for an id of active_requests,
\* False for any other id
CancelCall(t) ==
  /\ cancel_request(t)
  /\ lastCancel' = [task |-> t, result |-> t \in active_requests, found |-> Whereabouts(t)]

\* the orchestrator's operations on the request ids T
Generator(T) ==
  \/ \E pr \in Prompts : Submit(pr, T)
  \/ \E t \in T : WorkerStart(t)
  \/ \E t \in T : SyncBegin(t)
  \/ \E t \in T, ok \in BOOLEAN : SyncInputs(t, ok)
  \/ \E t \in T : SyncGenerate(t)
  \/ \E t \in T, ok \in BOOLEAN : SyncInferred(t, ok)
  \/ \E t \in T, ok \in BOOLEAN : SyncSave(t, ok)
  \/ \E t \in T : WorkerResume(t)
  \/ \E t \in T : CancelRequest(t)

\* one lifecycle client and one generation request: the orchestrator against the whole lifecycle
Next == Lifecycle({1}, {NoName}, {8}, Snapshots, {"ok", "fail_model"}) \/ Generator({1})

Spec == Init /\ [][Next]_vars

\* the state main.py's startup leaves behind when its auto-load succeeds (main.py:192-197)
InitServing ==
  /\ status = "loaded"
  /\ name = DEFAULT_MODEL
  /\ loaded_at = 1
  /\ error_message = None
  /\ inference_count = 0
  /\ model = TRUE
  /\ processor = TRUE
  /\ lock = NoCaller
  /\ snapshot = NoSnapshot
  /\ loadCalls = 1
  /\ orphans = 0
  /\ cpc = [p \in Callers |-> "idle"]
  /\ carg = [p \in Callers |-> NoName]
  /\ cthen = [p \in Callers |-> "none"]
  /\ cexc = [p \in Callers |-> None]
  /\ cret = [p \in Callers |-> IF p = 1 THEN "True" ELSE "none"]
  /\ next_id = 0
  /\ req_status = [t \in Tasks |-> "none"]
  /\ progress = [t \in Tasks |-> 0]
  /\ cancelled = [t \in Tasks |-> FALSE]
  /\ result_path = [t \in Tasks |-> FALSE]
  /\ file_written = [t \in Tasks |-> FALSE]
  /\ req_error = [t \in Tasks |-> None]
  /\ active_requests = {}
  /\ completed_requests = {}
  /\ tpc = [t \in Tasks |-> "none"]
  /\ engineCalls = [t \in Tasks |-> 0]
  /\ cancelAt = [t \in Tasks |-> "never"]
  /\ finalized = <<>>
  /\ nSubmit = 0
  /\ lastSubmit = NoSubmit
  /\ lastCancel = NoCancel
  /\ NInit

ServingNext == Generator(Tasks)

\* the orchestrator serving requests while the model stays loaded
SpecServing == InitServing /\ [][ServingNext]_vars

\* the event loop runs every scheduled coroutine and the executor runs every submitted call to its end
WorkerFairness ==
  \A t \in Tasks :
    /\ WF_vars(WorkerStart(t))
    /\ WF_vars(SyncBegin(t))
    /\ WF_vars(\E ok \in BOOLEAN : SyncInputs(t, ok))
    /\ WF_vars(SyncGenerate(t))
    /\ WF_vars(\E ok \in BOOLEAN : SyncInferred(t, ok))
    /\ WF_vars(\E ok \in BOOLEAN : SyncSave(t, ok))
    /\ WF_vars(WorkerResume(t))

SpecServingFair == SpecServing /\ WorkerFairness

CancelNext == Generator(Tasks) \/ \E t \in Tasks : CancelCall(t)

\* the orchestrator serving requests and a client that cancels and looks at the answers
SpecCancel == InitServing /\ [][CancelNext]_vars

\* two load_model calls already issued and waiting for the lock of a fresh manager
InitLoad2 ==
  /\ status = "not_loaded"
  /\ name = ""
  /\ loaded_at = 0
  /\ error_message = None
  /\ inference_count = 0
  /\ model = FALSE
  /\ processor = FALSE
  /\ lock = NoCaller
  /\ snapshot = NoSnapshot
  /\ loadCalls = 0
  /\ orphans = 0
  /\ cpc = [p \in Callers |-> "load_wait"]
  /\ carg \in [Callers -> ModelNames]
  /\ cthen = [p \in Callers |-> "none"]
  /\ cexc = [p \in Callers |-> None]
  /\ cret = [p \in Callers |-> "none"]
  /\ next_id = 0
  /\ req_status = [t \in Tasks |-> "none"]
  /\ progress = [t \in Tasks |-> 0]
  /\ cancelled = [t \in Tasks |-> FALSE]
  /\ result_path = [t \in Tasks |-> FALSE]
  /\ file_written = [t \in Tasks |-> FALSE]
  /\ req_error = [t \in Tasks |-> None]
  /\ active_requests = {}
  /\ completed_requests = {}
  /\ tpc = [t \in Tasks |-> "none"]
  /\ engineCalls = [t \in Tasks |-> 0]
  /\ cancelAt = [t \in Tasks |-> "never"]
  /\ finalized = <<>>
  /\ nSubmit = 0
  /\ lastSubmit = NoSubmit
  /\ lastCancel = NoCancel
  /\ NInit

Load2Next ==
  \/ \E p \in Callers : LoadAcquire(p)
  \/ \E p \in Callers, g \in TotalMemoryGBs : LoadCheck(p, g)
  \/ \E p \in Callers, s \in Snapshots : LoadResources(p, s)
  \/ \E p \in Callers, o \in LoadOutcomes : LoadThread(p, o)
  \/ \E p \in Callers : LoadFinish(p)
  \/ \E p \in Callers : LoadExcept(p)
  \/ \E p \in Callers : LoadCancelled(p)
  \/ \E o \in LoadOutcomes : OrphanThread(o)

\* concurrent load_model calls, one per caller, racing for the lock
SpecLoad2 == InitLoad2 /\ [][Load2Next]_vars

\* the requests registered after the requests of Tasks, as many as the completed set holds
LaterTasks == (MaxTasks + 1)..(MaxTasks + max_completed_requests)

\* a serving generator whose first requests are still inside model.generate in the executor
\* while max_completed_requests requests registered after them have completed and fill the
\* completed set
InitBacklog ==
  /\ status = "loaded"
  /\ name = DEFAULT_MODEL
  /\ loaded_at = 1
  /\ error_message = None
  /\ inference_count = max_completed_requests
  /\ model = TRUE
  /\ processor = TRUE
  /\ lock = NoCaller
  /\ snapshot = NoSnapshot
  /\ loadCalls = 1
  /\ orphans = 0
  /\ cpc = [p \in Callers |-> "idle"]
  /\ carg = [p \in Callers |-> NoName]
  /\ cthen = [p \in Callers |-> "none"]
  /\ cexc = [p \in Callers |-> None]
  /\ cret = [p \in Callers |-> IF p = 1 THEN "True" ELSE "none"]
  /\ next_id = MaxTasks + max_completed_requests
  /\ req_status = [t \in Tasks |-> "processing"]
  /\ progress = [t \in Tasks |-> 40]
  /\ cancelled = [t \in Tasks |-> FALSE]
  /\ result_path = [t \in Tasks |-> FALSE]
  /\ file_written = [t \in Tasks |-> FALSE]
  /\ req_error = [t \in Tasks |-> None]
  /\ active_requests = Tasks
  /\ completed_requests = LaterTasks
  /\ tpc = [t \in Tasks |-> "inferring"]
  /\ engineCalls = [t \in Tasks |-> 1]
  /\ cancelAt = [t \in Tasks |-> "never"]
  /\ finalized = [i \in 1..max_completed_requests |-> MaxTasks + i]
  /\ nSubmit = 0
  /\ lastSubmit = NoSubmit
  /\ lastCancel = NoCancel
  /\ NInit

\* what is left of the workers of Tasks, and cancel_request
BacklogNext ==
  \/ \E t \in Tasks, ok \in BOOLEAN : SyncInferred(t, ok)
  \/ \E t \in Tasks, ok \in BOOLEAN : SyncSave(t, ok)
  \/ \E t \in Tasks : WorkerResume(t)
  \/ \E t \in Tasks : CancelRequest(t)

\* long-running requests finishing after a full completed set of later ones
SpecBacklog == InitBacklog /\ [][BacklogNext]_vars

\* ====================================================== ParameterValidator
\* Numbers are counted in tenths (duration 1.0 is 10, top_k 250 is 2500), the sample rate in Hz.
\* A value is a record: a finite number, a float NaN, a float +inf, a non-numeric text, or
\* the absence of the key.

Num(v) == [k |-> "num", v |-> v]
NaN == [k |-> "nan", v |-> 0]
Inf == [k |-> "inf", v |-> 0]
Text == [k |-> "text", v |-> 0]
Missing == [k |-> "missing", v |-> 0]

ParamNames == {"duration", "guidance_scale", "temperature", "top_k", "top_p"}

parameter_ranges ==
  [duration       |-> [min |-> 10, max |-> 300,   default |-> 100],
   guidance_scale |-> [min |-> 10, max |-> 100,   default |-> 30],
   temperature    |-> [min |-> 1,  max |-> 20,    default |-> 10],
   top_k          |-> [min |-> 10, max |-> 10000, default |-> 2500],
   top_p          |-> [min |-> 0,  max |-> 10,    default |-> 0]]

sample_rate_allowed == <<16000, 22050, 32000, 44100, 48000>>
sample_rate_default == 32000
supported_formats == {"wav", "mp3", "flac"}

\* float(value): a record [ok, value]; ok is false when ValueError / TypeError is raised
ToFloat(x) == [ok |-> x.k \in {"num", "nan", "inf"}, overflow |-> FALSE, value |-> x]

\* int(value): truncation toward zero; NaN and text raise ValueError, infinity raises OverflowError
ToInt(x) ==
  [ok |-> x.k = "num",
   overflow |-> x.k = "inf",
   value |-> IF x.k = "num"
               THEN Num(IF x.v >= 0 THEN (x.v \div 10) * 10 ELSE 0 - (((0 - x.v) \div 10) * 10))
               ELSE x]

\* value < bound and value > bound on floats: every comparison with NaN is false
Below(x, b) == x.k = "num" /\ x.v < b
Above(x, b) == (x.k = "num" /\ x.v > b) \/ x.k = "inf"

Abs(i) == IF i < 0 THEN 0 - i ELSE i

\* min(allowed, key=lambda x: abs(x - value)): the first of the nearest allowed rates
Closest(v) ==
  LET n == Len(sample_rate_allowed)
      d(i) == Abs(sample_rate_allowed[i] - v)
      i == CHOOSE a \in 1..n : \A b \in 1..n : d(a) < d(b) \/ (d(a) = d(b) /\ a <= b)
  IN sample_rate_allowed[i]

SingleResult(valid, raised, value, warning) ==
  [valid |-> valid, raised |-> raised, value |-> value, warning |-> warning]

\* _validate_single_parameter clamping a value above the maximum one step past it
_validate_single_parameter_past_max(pname, value) ==
  IF pname = "sample_rate"
    THEN IF value.k = "inf" THEN SingleResult(FALSE, TRUE, value, FALSE)
         ELSE IF value.k # "num" THEN SingleResult(FALSE, FALSE, value, FALSE)
         ELSE IF \A i \in 1..Len(sample_rate_allowed) : sample_rate_allowed[i] # value.v
           THEN SingleResult(TRUE, FALSE, Num(Closest(value.v)), TRUE)
           ELSE SingleResult(TRUE, FALSE, value, FALSE)
    ELSE LET c == IF pname = "top_k" THEN ToInt(value) ELSE ToFloat(value)
             r == parameter_ranges[pname]
         IN IF c.overflow THEN SingleResult(FALSE, TRUE, value, FALSE)
            ELSE IF ~c.ok THEN SingleResult(FALSE, FALSE, value, FALSE)
            ELSE IF Below(c.value, r.min) THEN SingleResult(TRUE, FALSE, Num(r.min), TRUE)
            ELSE IF Above(c.value, r.max) THEN SingleResult(TRUE, FALSE, Num(r.max + 1), TRUE)
            ELSE SingleResult(TRUE, FALSE, c.value, FALSE)

\* ParameterValidator._validate_single_parameter; raised marks an exception that the
\* except (ValueError, TypeError) clause does not catch
_validate_single_parameter(pname, value) ==
  IF pname = "sample_rate"
    THEN IF value.k = "inf" THEN SingleResult(FALSE, TRUE, value, FALSE)
         ELSE IF value.k # "num" THEN SingleResult(FALSE, FALSE, value, FALSE)
         ELSE IF \A i \in 1..Len(sample_rate_allowed) : sample_rate_allowed[i] # value.v
           THEN SingleResult(TRUE, FALSE, Num(Closest(value.v)), TRUE)
           ELSE SingleResult(TRUE, FALSE, value, FALSE)
    ELSE LET c == IF pname = "top_k" THEN ToInt(value) ELSE ToFloat(value)
             r == parameter_ranges[pname]
         IN IF c.overflow THEN SingleResult(FALSE, TRUE, value, FALSE)
            ELSE IF ~c.ok THEN SingleResult(FALSE, FALSE, value, FALSE)
            ELSE IF Below(c.value, r.min) THEN SingleResult(TRUE, FALSE, Num(r.min), TRUE)
            ELSE IF Above(c.value, r.max) THEN SingleResult(TRUE, FALSE, Num(r.max), TRUE)
            ELSE SingleResult(TRUE, FALSE, c.value, FALSE)

RangedNames == ParamNames \cup {"sample_rate"}

DefaultOf(n) == IF n = "sample_rate" THEN Num(sample_rate_default) ELSE Num(parameter_ranges[n].default)

\* str.strip on a prompt of len visible characters wrapped in pad whitespace characters
Strip(pr) == [len |-> pr.len, pad |-> 0]

\* ParameterValidator.validate_parameters on the dict ps
ParameterValidator_validate_parameters(ps) ==
  LET one(n) == _validate_single_parameter(n, ps[n])
      present == {n \in RangedNames : ps[n] # Missing}
      cv(n) == IF n \in present THEN (IF one(n).valid THEN one(n).value ELSE Missing) ELSE DefaultOf(n)
      fmt == IF ps["output_format"] = "missing" THEN "wav" ELSE ps["output_format"]
      prompt_ok == ps["prompt"].len > 0
  IN [called |-> TRUE,
      raised |-> \E n \in present : one(n).raised,
      valid |-> (\A n \in present : one(n).valid) /\ prompt_ok,
      errors |-> {n \in present : ~one(n).valid} \cup (IF prompt_ok THEN {} ELSE {"prompt"}),
      warnings |-> {n \in present : one(n).valid /\ one(n).warning}
                     \cup (IF fmt \in supported_formats THEN {} ELSE {"output_format"}),
      applied_defaults |-> RangedNames \ present,
      cleaned_params |->
        [duration |-> cv("duration"), guidance_scale |-> cv("guidance_scale"),
         temperature |-> cv("temperature"), top_k |-> cv("top_k"), top_p |-> cv("top_p"),
         sample_rate |-> cv("sample_rate"),
         output_format |-> IF fmt \in supported_formats THEN fmt ELSE "wav",
         prompt |-> IF prompt_ok THEN Strip(ps["prompt"]) ELSE [len |-> 0, pad |-> 0]]]

DurationInputs == {Missing, Num(5), Num(10), Num(300), Num(1000), NaN}
GuidanceInputs == {Missing, Num(100), Num(101)}
TemperatureInputs == {Missing, Num(0), Num(1), Num(20), Num(50)}
TopKInputs == {Missing, Num(0 - 5), Num(27), Num(10000), Num(20000), NaN, Inf, Text}
TopPInputs == {Missing, Num(0 - 1), Num(0), Num(10), Num(11)}
SampleRateInputs == {Missing, Num(31000)}
FormatInputs == {"missing", "ogg"}
PromptInputs == {[len |-> 0, pad |-> 0], [len |-> 0, pad |-> 2], [len |-> 4, pad |-> 2]}

ParamInputs ==
  {[duration |-> d, guidance_scale |-> g, temperature |-> t, top_k |-> k, top_p |-> p,
    sample_rate |-> s, output_format |-> f, prompt |-> pr] :
     d \in DurationInputs, g \in GuidanceInputs, t \in TemperatureInputs, k \in TopKInputs,
     p \in TopPInputs, s \in SampleRateInputs, f \in FormatInputs, pr \in PromptInputs}

\* validate_parameters is applied to the input
Validate ==
  /\ ~validation_result.called
  /\ validation_result' = ParameterValidator_validate_parameters(params)
  /\ UNCHANGED <<params, revalidation_result>>
  /\ UNCHANGED <<mvars, gvars, inference_count, rvars, svars>>

\* validate_parameters is applied to the cleaned parameters of a successful validation
Revalidate ==
  /\ validation_result.called /\ ~validation_result.raised /\ validation_result.valid
  /\ ~revalidation_result.called
  /\ revalidation_result' = ParameterValidator_validate_parameters(validation_result.cleaned_params)
  /\ UNCHANGED <<params, validation_result>>
  /\ UNCHANGED <<mvars, gvars, inference_count, rvars, svars>>

InitValidator ==
  /\ ControlPlaneInit
  /\ params \in ParamInputs
  /\ validation_result = NoResult
  /\ revalidation_result = NoResult
  /\ RInit
  /\ SInit

ValidatorNext == Validate \/ Revalidate

\* the parameter validator applied to every input of ParamInputs, then to its own output
SpecValidator == InitValidator /\ [][ValidatorNext]_vars

\* ========================================================= ResourceMonitor

CpuPercents == {0, 500, 800, 950}

\* what the counters read at a tick of the loop: the CPU varies, memory and disk are steady,
\* there is no GPU
Readings == {[cpu_percent |-> c, memory_percent |-> 600, disk_percent |-> 400, gpu_memory_used_mb |-> NoGpu] : c \in CpuPercents}

\* a list that grows without bound
ListAppend(q, x, n) == Append(q, x)

\* deque.append on a deque(maxlen=n): the leftmost element is dropped when the deque is full
DequeAppend(q, x, n) ==
  IF n = 0 THEN <<>>
  ELSE IF Len(q) >= n THEN Append(Tail(q), x)
  ELSE Append(q, x)

\* ResourceThresholds, in tenths of a percent
cpu_warning == 800
cpu_critical == 950
memory_warning == 800
memory_critical == 900
disk_warning == 850
disk_critical == 950
gpu_memory_warning == 800
gpu_memory_critical == 900

\* _check_thresholds with an if where the code has elif: a critical value triggers the warning too
_check_thresholds_no_elif(snap) ==
  (IF snap.cpu_percent >= cpu_critical THEN {"cpu_critical"} ELSE {})
  \cup (IF snap.cpu_percent >= cpu_warning THEN {"cpu_warning"} ELSE {})
  \cup (IF snap.memory_percent >= memory_critical THEN {"memory_critical"} ELSE {})
  \cup (IF snap.memory_percent >= memory_warning THEN {"memory_warning"} ELSE {})
  \cup (IF snap.disk_percent >= disk_critical THEN {"disk_critical"} ELSE {})
  \cup (IF snap.disk_percent >= disk_warning THEN {"disk_warning"} ELSE {})
  \cup (IF snap.gpu_memory_used_mb # NoGpu /\ snap.gpu_memory_used_mb >= gpu_memory_critical
          THEN {"gpu_memory_critical"} ELSE {})
  \cup (IF snap.gpu_memory_used_mb # NoGpu /\ snap.gpu_memory_used_mb >= gpu_memory_warning
          THEN {"gpu_memory_warning"} ELSE {})

\* ResourceMonitor._check_thresholds: the warning types it triggers for a snapshot; the GPU
\* check is made on a snapshot that has GPU memory figures
_check_thresholds(snap) ==
  (IF snap.cpu_percent >= cpu_critical THEN {"cpu_critical"}
   ELSE IF snap.cpu_percent >= cpu_warning THEN {"cpu_warning"} ELSE {})
  \cup (IF snap.memory_percent >= memory_critical THEN {"memory_critical"}
         ELSE IF snap.memory_percent >= memory_warning THEN {"memory_warning"} ELSE {})
  \cup (IF snap.disk_percent >= disk_critical THEN {"disk_critical"}
         ELSE IF snap.disk_percent >= disk_warning THEN {"disk_warning"} ELSE {})
  \cup (IF snap.gpu_memory_used_mb = NoGpu THEN {}
         ELSE IF snap.gpu_memory_used_mb >= gpu_memory_critical THEN {"gpu_memory_critical"}
         ELSE IF snap.gpu_memory_used_mb >= gpu_memory_warning THEN {"gpu_memory_warning"} ELSE {})

\* start_monitoring without its is_monitoring check: the task of a running monitor is replaced
\* and goes on unreferenced
start_monitoring_unguarded ==
  /\ stray_loops + (IF monitor_task = "running" THEN 1 ELSE 0) < MaxStray
  /\ is_monitoring' = TRUE
  /\ monitor_task' = "running"
  /\ stray_loops' = stray_loops + (IF monitor_task = "running" THEN 1 ELSE 0)
  /\ UNCHANGED <<stopping, resource_history, last_snapshot, samples, appended, triggered>>
  /\ UNCHANGED <<mvars, gvars, inference_count, pvars, svars, qvars>>

\* ResourceMonitor.start_monitoring on a monitor that is not running (on a running one it
\* returns at once): the flag is set and a task is created for _monitor_loop
start_monitoring ==
  /\ ~is_monitoring
  /\ stray_loops < MaxStray
  /\ is_monitoring' = TRUE
  /\ monitor_task' = "running"
  /\ UNCHANGED <<stopping, stray_loops, resource_history, last_snapshot, samples, appended, triggered>>
  /\ UNCHANGED <<mvars, gvars, inference_count, pvars, svars, qvars>>

\* ResourceMonitor.stop_monitoring on a running monitor (on a stopped one it returns at once), up
\* to its await: the flag is cleared and the task, when one is held, is cancelled and awaited
stop_monitoring ==
  /\ is_monitoring
  /\ is_monitoring' = FALSE
  /\ IF monitor_task = "none"
       THEN UNCHANGED <<monitor_task, stopping>>
       ELSE /\ stopping < NumCallers
            /\ monitor_task' = "cancelled"
            /\ stopping' = stopping + 1
  /\ UNCHANGED <<stray_loops, resource_history, last_snapshot, samples, appended, triggered>>
  /\ UNCHANGED <<mvars, gvars, inference_count, pvars, svars, qvars>>

\* stop_monitoring after the task it awaited has ended: self.monitor_task = None, whatever
\* task the field refers to by now
stop_monitoring_resume ==
  /\ stopping > 0
  /\ stopping' = stopping - 1
  /\ monitor_task' = "none"
  /\ stray_loops' = stray_loops + (IF monitor_task = "running" THEN 1 ELSE 0)
  /\ UNCHANGED <<is_monitoring, resource_history, last_snapshot, samples, appended, triggered>>
  /\ UNCHANGED <<mvars, gvars, inference_count, pvars, svars, qvars>>

\* a _monitor_loop task nothing refers to wakes from its sleep while is_monitoring is False and
\* returns
LoopExit ==
  /\ ~is_monitoring
  /\ stray_loops > 0
  /\ stray_loops' = stray_loops - 1
  /\ UNCHANGED <<is_monitoring, monitor_task, stopping, resource_history, last_snapshot, samples, appended, triggered>>
  /\ UNCHANGED <<mvars, gvars, inference_count, pvars, svars, qvars>>

TickOutcomes == {"ok", "sampling_error", "metrics_error"}

\* the snapshot _get_current_snapshot returns for the readings r: all zeros, without GPU fields,
\* when sampling raised
Snapshot(r, o) ==
  IF o = "sampling_error"
    THEN [timestamp |-> samples + 1, cpu_percent |-> 0, memory_percent |-> 0, disk_percent |-> 0,
          gpu_memory_used_mb |-> NoGpu]
    ELSE [timestamp |-> samples + 1, cpu_percent |-> r.cpu_percent, memory_percent |-> r.memory_percent,
          disk_percent |-> r.disk_percent, gpu_memory_used_mb |-> r.gpu_memory_used_mb]

\* _monitor_loop without its except clause: an exception in the iteration ends the task
MonitorTick_NoExcept(r, o) ==
  /\ is_monitoring
  /\ (monitor_task = "running" \/ stray_loops > 0)
  /\ samples < MaxTicks
  /\ LET snap == Snapshot(r, o) IN
       /\ resource_history' = DequeAppend(resource_history, snap, history_size)
       /\ last_snapshot' = snap
       /\ appended' = Append(appended, snap)
       /\ triggered' = _check_thresholds(snap)
  /\ samples' = samples + 1
  /\ monitor_task' = IF o = "metrics_error" THEN "ended" ELSE "running"
  /\ UNCHANGED <<is_monitoring, stopping, stray_loops>>
  /\ UNCHANGED <<mvars, gvars, inference_count, pvars, svars, qvars>>

\* one iteration of _monitor_loop: snapshot (all zeros when sampling failed), append, threshold
\* check, performance metrics; an exception raised after the append (metrics_error) is caught
\* by the loop, which sleeps and goes on.  The warning callback registered by
\* _setup_notification_callbacks calls send_notification with keywords it does not take; the
\* TypeError is caught by _trigger_warning, so the check changes nothing.
MonitorTick(r, o) ==
  /\ is_monitoring
  /\ (monitor_task = "running" \/ stray_loops > 0)
  /\ samples < MaxTicks
  /\ LET snap == Snapshot(r, o) IN
       /\ resource_history' = DequeAppend(resource_history, snap, history_size)
       /\ last_snapshot' = snap
       /\ appended' = Append(appended, snap)
       /\ triggered' = _check_thresholds(snap)
  /\ samples' = samples + 1
  /\ UNCHANGED <<is_monitoring, monitor_task, stopping, stray_loops>>
  /\ UNCHANGED <<mvars, gvars, inference_count, pvars, svars, qvars>>

\* ResourceMonitor.clear_history
clear_history ==
  /\ resource_history # <<>>
  /\ resource_history' = <<>>
  /\ appended' = <<>>
  /\ UNCHANGED <<is_monitoring, monitor_task, stopping, stray_loops, last_snapshot, samples, triggered>>
  /\ UNCHANGED <<mvars, gvars, inference_count, pvars, svars, qvars>>

MonitorNext ==
  \/ start_monitoring
  \/ stop_monitoring
  \/ stop_monitoring_resume
  \/ LoopExit
  \/ \E r \in Readings, o \in TickOutcomes : MonitorTick(r, o)
  \/ clear_history

\* the resource monitor sampling on its interval
SpecMonitor == Init /\ [][MonitorNext]_vars

\* readings on and just below the thresholds, with and without GPU memory figures
ThresholdReadings ==
  {[cpu_percent |-> c, memory_percent |-> m, disk_percent |-> d, gpu_memory_used_mb |-> g] :
     c \in {799, 800, 949, 950}, m \in {799, 800, 899, 900}, d \in {849, 850, 949, 950},
     g \in {NoGpu, 0, 799, 800, 899, 900}}

\* a running monitor whose history was cleared after a tick in which sampling failed, with one
\* tick of the bound left
InitThresholds ==
  /\ ControlPlaneInit
  /\ PInit
  /\ SInit
  /\ is_monitoring = TRUE
  /\ monitor_task = "running"
  /\ stopping = 0
  /\ stray_loops = 0
  /\ triggered = {}
  /\ samples = MaxTicks - 1
  /\ last_snapshot = [NoSnapshotYet EXCEPT !.timestamp = samples]
  /\ resource_history = <<>>
  /\ appended = <<>>
  /\ trend_result = NoResult
  /\ summary_result = NoResult

ThresholdsNext == \E r \in ThresholdReadings : MonitorTick(r, "ok")

\* the threshold check of a tick on every reading of ThresholdReadings
SpecThresholds == InitThresholds /\ [][ThresholdsNext]_vars

\* the event loop runs the monitor task whenever its sleep is over
SpecMonitorFair == SpecMonitor /\ WF_vars(\E r \in Readings, o \in TickOutcomes : MonitorTick(r, o))

\* ------------------------------------------------ get_resource_trend
\* ResourceMonitor(monitor_interval=1.0): seconds between two samples.  Snapshot timestamps
\* count sampling intervals.
monitor_interval == 1
TicksPerMinute == 60 \div monitor_interval

ResourceTypes == {"cpu", "memory", "gpu"}
\* analysis windows, in minutes
Windows == {0, 1, 30}
\* sampling intervals gone by since the last sample when the trend is asked for
Elapsed == {0, 59, 60}

\* the quotient n / d rounded to the nearest integer, as round() does; a tie needs a divisor
\* that is a multiple of 8, which no window of the histories below has
RoundDiv(n, d) == IF n >= 0 THEN (2 * n + d) \div (2 * d) ELSE 0 - ((2 * (0 - n) + d) \div (2 * d))

Clamp(x, lo, hi) == IF x < lo THEN lo ELSE IF x > hi THEN hi ELSE x

\* the two answers that carry no trend
NoHistory ==
  [called |-> TRUE, error |-> "No resource history available", trend |-> "unknown",
   change_rate |-> 0, has_prediction |-> FALSE, prediction |-> 0, data_points |-> 0]
InsufficientData ==
  [called |-> TRUE, error |-> "Insufficient data for trend analysis", trend |-> "unknown",
   change_rate |-> 0, has_prediction |-> FALSE, prediction |-> 0, data_points |-> 0]
\* the answer without a "trend" key
Unsupported ==
  [called |-> TRUE, error |-> "Unsupported resource type", trend |-> "absent",
   change_rate |-> 0, has_prediction |-> FALSE, prediction |-> 0, data_points |-> 0]

\* the snapshots of the history not older than the window
RecentData(minutes, elapsed) ==
  SelectSeq(resource_history, LAMBDA snap : snap.timestamp >= (samples + elapsed) - minutes * TicksPerMinute)

\* the value of the resource in a snapshot; the gpu branch is taken only when
\* gpu_memory_used_mb is truthy (neither None nor 0)
HasValue(resource_type, snap) ==
  \/ resource_type \in {"cpu", "memory", "disk"}
  \/ resource_type = "gpu" /\ snap.gpu_memory_used_mb # NoGpu /\ snap.gpu_memory_used_mb # 0

ValueOf(resource_type, snap) ==
  CASE resource_type = "cpu" -> snap.cpu_percent
    [] resource_type = "memory" -> snap.memory_percent
    [] resource_type = "disk" -> snap.disk_percent
    [] OTHER -> snap.gpu_memory_used_mb

\* the classification of a change of delta tenths of a percent over n samples with the dead
\* band moved from 0.1 to 1.0 percent per sample
Classify_WideBand(delta, n) ==
  IF delta < 10 * n /\ 0 - delta < 10 * n THEN "stable"
  ELSE IF delta > 0 THEN "increasing"
  ELSE "decreasing"

\* the classification of a change of delta tenths of a percent over n samples:
\* abs(change_rate) < 0.1 is abs(delta) < n.  (At abs(delta) = n the float comparison can
\* fall either way; no series below has that change.)
Classify(delta, n) ==
  IF delta < n /\ 0 - delta < n THEN "stable"
  ELSE IF delta > 0 THEN "increasing"
  ELSE "decreasing"

\* ResourceMonitor.get_resource_trend, asked elapsed sampling intervals after the last sample.
\* change_rate is in thousandths of a percent per sample (three decimals), prediction in
\* hundredths of a percent (two decimals).
get_resource_trend(resource_type, minutes, elapsed) ==
  LET recent == RecentData(minutes, elapsed)
      n == Len(recent) IN
  IF resource_history = <<>> THEN NoHistory
  ELSE IF n < 2 THEN InsufficientData
  ELSE IF \E i \in 1..n : ~HasValue(resource_type, recent[i]) THEN Unsupported
  ELSE LET start_value == ValueOf(resource_type, recent[1])
           end_value == ValueOf(resource_type, recent[n])
           delta == end_value - start_value
           prediction_steps == (10 * 60) \div monitor_interval IN
       [called |-> TRUE, error |-> "none", trend |-> Classify(delta, n),
        change_rate |-> RoundDiv(100 * delta, n),
        has_prediction |-> TRUE,
        prediction |-> Clamp(RoundDiv(10 * end_value * n + 10 * delta * prediction_steps, n), 0, 10000),
        data_points |-> n]

\* a call of get_resource_trend; the arguments are kept with the answer
Trend(resource_type, minutes, elapsed) ==
  /\ trend_result' = [result |-> get_resource_trend(resource_type, minutes, elapsed), called |-> TRUE,
                      resource_type |-> resource_type, minutes |-> minutes, elapsed |-> elapsed]
  /\ UNCHANGED <<is_monitoring, monitor_task, stopping, stray_loops, resource_history, last_snapshot, samples, appended, summary_result, triggered>>
  /\ UNCHANGED <<mvars, gvars, inference_count, pvars, svars>>

\* readings of a machine whose CPU load and GPU memory vary from sample to sample
TrendReadings ==
  {[cpu_percent |-> c, memory_percent |-> 600, disk_percent |-> 400, gpu_memory_used_mb |-> g] :
     c \in {500, 501, 510}, g \in {NoGpu, 0, 400}}

\* the histories of up to history_size samples of a monitor that has been stopped
TrendHistories ==
  UNION {{[i \in 1..n |-> [timestamp |-> i, cpu_percent |-> f[i].cpu_percent,
                           memory_percent |-> f[i].memory_percent, disk_percent |-> f[i].disk_percent,
                           gpu_memory_used_mb |-> f[i].gpu_memory_used_mb]] : f \in [1..n -> TrendReadings]}
         : n \in 0..history_size}

InitTrend ==
  /\ ControlPlaneInit
  /\ PInit
  /\ SInit
  /\ is_monitoring = FALSE
  /\ monitor_task = "none"
  /\ stopping = 0
  /\ stray_loops = 0
  /\ triggered = {}
  /\ resource_history \in TrendHistories
  /\ samples = Len(resource_history)
  /\ appended = resource_history
  /\ last_snapshot = IF resource_history = <<>> THEN NoSnapshotYet ELSE resource_history[Len(resource_history)]
  /\ trend_result = NoResult
  /\ summary_result = NoResult

TrendNext == \E resource_type \in ResourceTypes, minutes \in Windows, elapsed \in Elapsed : Trend(resource_type, minutes, elapsed)

\* get_resource_trend applied to every history of TrendHistories
SpecTrend == InitTrend /\ [][TrendNext]_vars

\* ---------------------------------------------- get_resource_summary
\* the health part of get_resource_summary with the boundary of the band "good" moved onto 80
Health_FairAtEighty(snap) ==
  LET health_score == 100 - (IF snap.cpu_percent > cpu_warning THEN 20 ELSE 0)
                          - (IF snap.memory_percent > memory_warning THEN 25 ELSE 0)
                          - (IF snap.disk_percent > disk_warning THEN 15 ELSE 0) IN
  [score |-> health_score,
   status |-> IF health_score < 60 THEN "poor"
              ELSE IF health_score <= 80 THEN "fair"
              ELSE IF health_score < 95 THEN "good"
              ELSE "excellent",
   warnings |-> (IF snap.cpu_percent > cpu_warning THEN {"High CPU usage"} ELSE {})
                \cup (IF snap.memory_percent > memory_warning THEN {"High memory usage"} ELSE {})
                \cup (IF snap.disk_percent > disk_warning THEN {"High disk usage"} ELSE {})]

\* the health part of get_resource_summary for the current status snap
Health(snap) ==
  LET health_score == 100 - (IF snap.cpu_percent > cpu_warning THEN 20 ELSE 0)
                          - (IF snap.memory_percent > memory_warning THEN 25 ELSE 0)
                          - (IF snap.disk_percent > disk_warning THEN 15 ELSE 0) IN
  [score |-> health_score,
   status |-> IF health_score < 60 THEN "poor"
              ELSE IF health_score < 80 THEN "fair"
              ELSE IF health_score < 95 THEN "good"
              ELSE "excellent",
   warnings |-> (IF snap.cpu_percent > cpu_warning THEN {"High CPU usage"} ELSE {})
                \cup (IF snap.memory_percent > memory_warning THEN {"High memory usage"} ELSE {})
                \cup (IF snap.disk_percent > disk_warning THEN {"High disk usage"} ELSE {})]

\* ResourceMonitor.get_resource_summary: get_current_status takes a snapshot of the readings r
\* when there is no last snapshot, and the health is computed from the current status
Summary(r, o) ==
  /\ LET snap == IF last_snapshot = NoSnapshotYet THEN Snapshot(r, o) ELSE last_snapshot IN
       /\ last_snapshot' = snap
       /\ samples' = IF last_snapshot = NoSnapshotYet THEN samples + 1 ELSE samples
       /\ summary_result' = [called |-> TRUE, current_status |-> snap, health |-> Health(snap)]
  /\ UNCHANGED <<is_monitoring, monitor_task, stopping, stray_loops, resource_history, appended, trend_result, triggered>>
  /\ UNCHANGED <<mvars, gvars, inference_count, pvars, svars>>

\* readings around the warning thresholds
SummaryReadings ==
  {[cpu_percent |-> c, memory_percent |-> m, disk_percent |-> d, gpu_memory_used_mb |-> NoGpu] :
     c \in {500, 800, 801, 950}, m \in {600, 800, 801, 900}, d \in {400, 850, 851}}

\* a monitor that has not sampled yet, or one stopped after its first sample
InitSummary ==
  /\ ControlPlaneInit
  /\ PInit
  /\ SInit
  /\ is_monitoring = FALSE
  /\ monitor_task = "none"
  /\ stopping = 0
  /\ stray_loops = 0
  /\ triggered = {}
  /\ \/ /\ last_snapshot = NoSnapshotYet
        /\ resource_history = <<>>
        /\ samples = 0
     \/ /\ \E r \in SummaryReadings :
             last_snapshot = [timestamp |-> 1, cpu_percent |-> r.cpu_percent, memory_percent |-> r.memory_percent,
                              disk_percent |-> r.disk_percent, gpu_memory_used_mb |-> r.gpu_memory_used_mb]
        /\ resource_history = <<last_snapshot>>
        /\ samples = 1
  /\ appended = resource_history
  /\ trend_result = NoResult
  /\ summary_result = NoResult

SummaryNext == \E r \in SummaryReadings, o \in {"ok", "sampling_error"} : Summary(r, o)

\* get_resource_summary applied to every current status of SummaryReadings
SpecSummary == InitSummary /\ [][SummaryNext]_vars

\* ====================================================== NotificationSystem

DataInputs == {[cpu_percent |-> v, event |-> "none", keys |-> {}] : v \in {50, 90, 96}}
SendResults == {"ok", "false", "raise"}
Users == {"system", "ops"}

\* the clock advances by a minute
Tick ==
  /\ now < MaxTime
  /\ now' = now + 1
  /\ UNCHANGED <<rule_enabled, last_triggered, notifications, next_nid, channels, channel_enabled, total_sent, failed_sends, npc, ndata, nidx, nsent, npending, nresults, fire_log>>
  /\ UNCHANGED <<mvars, gvars, inference_count, pvars, rvars>>

\* the condition_func of a default rule
condition_func(r, data) ==
  IF r \in Rules THEN data.cpu_percent > rule_threshold[r] ELSE data.event = rule_event[r]

\* NotificationRule.should_trigger with the cooldown check left out
should_trigger_no_cooldown(r, data) ==
  /\ rule_enabled[r]
  /\ condition_func(r, data)

\* NotificationRule.should_trigger
should_trigger(r, data) ==
  /\ rule_enabled[r]
  /\ ~(last_triggered[r] # Never /\ now - last_triggered[r] < cooldown_minutes[r])
  /\ condition_func(r, data)

\* the Notification a rule or create_notification builds now
NewNotification(src) ==
  [id |-> next_nid + 1, source |-> src, generic |-> FALSE, timestamp |-> now, acknowledged |-> FALSE,
   acknowledged_at |-> Never, acknowledged_by |-> "none", resolved |-> FALSE, resolved_at |-> Never]

\* the keys of a data map
KeysOf(data) == {"cpu_percent"} \cup (IF data.event = "none" THEN {} ELSE {"event"}) \cup data.keys

\* str.format(**data) on the rule's templates raises KeyError: a replacement field is no key
MissingVariable(r, data) == ~(template_vars[r] \subseteq KeysOf(data))

\* NotificationRule.create_notification: title and message rendered from the templates, or
\* the generic ones when rendering raised KeyError
RuleNotification(r, data) == [NewNotification(r) EXCEPT !.generic = MissingVariable(r, data)]

\* notifications still to be created by the check_and_notify loops under way
Outstanding == Cardinality({<<c, i>> \in Callers \X (1..Len(rules)) : nidx[c] > 0 /\ i >= nidx[c]})

\* bound: k more notifications may be requested
NotifyBudget(k) == next_nid + Outstanding + k <= MaxNotifications

\* send_notification that dispatches before it records
SendStart_DispatchFirst(c, n) ==
  LET tasks == {ch \in channels : channel_enabled[ch]} IN
  /\ notifications' = IF tasks = {} THEN DequeAppend(notifications, n, max_history) ELSE notifications
  /\ total_sent' = total_sent + 1
  /\ nsent' = [nsent EXCEPT ![c] = IF tasks = {} THEN NoNotification ELSE n]
  /\ npending' = [npending EXCEPT ![c] = tasks]
  /\ nresults' = [nresults EXCEPT ![c] = [ch \in Channels |-> "none"]]

\* send_notification up to its await of asyncio.gather: history, statistics, one send task per
\* enabled channel
SendStart(c, n) ==
  LET tasks == {ch \in channels : channel_enabled[ch]} IN
  /\ notifications' = DequeAppend(notifications, n, max_history)
  /\ total_sent' = total_sent + 1
  /\ nsent' = [nsent EXCEPT ![c] = IF tasks = {} THEN NoNotification ELSE n]
  /\ npending' = [npending EXCEPT ![c] = tasks]
  /\ nresults' = [nresults EXCEPT ![c] = [ch \in Channels |-> "none"]]

\* the pc of a caller whose send_notification has started: awaiting gather when there are send
\* tasks, else past the call
AfterSendStart(after) == IF \E ch \in channels : channel_enabled[ch] THEN "gather" ELSE after

\* NotificationSystem.create_notification: build the notification and send it
CreateNotification(c) ==
  /\ npc[c] = "idle"
  /\ NotifyBudget(1)
  /\ next_nid' = next_nid + 1
  /\ SendStart(c, NewNotification("manual"))
  /\ npc' = [npc EXCEPT ![c] = AfterSendStart("idle")]
  /\ UNCHANGED <<now, rule_enabled, last_triggered, channels, channel_enabled, failed_sends, ndata, nidx, fire_log>>
  /\ UNCHANGED <<mvars, gvars, inference_count, pvars, rvars>>

\* check_and_notify over the rule list rs when a KeyError of the rendering is not caught: it
\* leaves create_notification before last_triggered is stamped and ends the call
CheckRules_KeyErrorPropagates(rs, c, data, from) ==
  LET firing == {i \in from..Len(rs) : should_trigger(rs[i], data)}
      i == IF firing = {} THEN 0 ELSE CHOOSE a \in firing : \A b \in firing : a <= b IN
  IF firing = {} \/ MissingVariable(rs[IF i = 0 THEN 1 ELSE i], data)
    THEN /\ npc' = [npc EXCEPT ![c] = "idle"]
         /\ nidx' = [nidx EXCEPT ![c] = 0]
         /\ ndata' = [ndata EXCEPT ![c] = NoData]
         /\ UNCHANGED <<last_triggered, notifications, next_nid, total_sent, nsent, npending, nresults, fire_log>>
    ELSE /\ last_triggered' = [last_triggered EXCEPT ![rs[i]] = now]
         /\ fire_log' = Append(fire_log, [rule |-> rs[i], at |-> now])
         /\ next_nid' = next_nid + 1
         /\ SendStart(c, RuleNotification(rs[i], data))
         /\ npc' = [npc EXCEPT ![c] = AfterSendStart("check")]
         /\ nidx' = [nidx EXCEPT ![c] = i + 1]
         /\ ndata' = [ndata EXCEPT ![c] = data]

\* the loop of check_and_notify over the rule list rs from rule index from to its next
\* suspension: the first rule that should trigger creates its notification (stamping
\* last_triggered) and sends it
CheckRules(rs, c, data, from) ==
  LET firing == {i \in from..Len(rs) : should_trigger(rs[i], data)} IN
  IF firing = {}
    THEN /\ npc' = [npc EXCEPT ![c] = "idle"]
         /\ nidx' = [nidx EXCEPT ![c] = 0]
         /\ ndata' = [ndata EXCEPT ![c] = NoData]
         /\ UNCHANGED <<last_triggered, notifications, next_nid, total_sent, nsent, npending, nresults, fire_log>>
    ELSE LET i == CHOOSE a \in firing : \A b \in firing : a <= b IN
         /\ last_triggered' = [last_triggered EXCEPT ![rs[i]] = now]
         /\ fire_log' = Append(fire_log, [rule |-> rs[i], at |-> now])
         /\ next_nid' = next_nid + 1
         /\ SendStart(c, RuleNotification(rs[i], data))
         /\ npc' = [npc EXCEPT ![c] = AfterSendStart("check")]
         /\ nidx' = [nidx EXCEPT ![c] = i + 1]
         /\ ndata' = [ndata EXCEPT ![c] = data]

\* the loop of check_and_notify on data maps that carry no event: only the CPU rules can fire
CheckLoop(c, data, from) == CheckRules(rules, c, data, from)

\* NotificationSystem.check_and_notify is called
CheckCall(c, data) ==
  /\ npc[c] = "idle"
  /\ NotifyBudget(Len(rules))
  /\ CheckLoop(c, data, 1)
  /\ UNCHANGED <<now, rule_enabled, channels, channel_enabled, failed_sends>>
  /\ UNCHANGED <<mvars, gvars, inference_count, pvars, rvars>>

\* check_and_notify goes on with the next rule after its send_notification returned
CheckResume(c) ==
  /\ npc[c] = "check"
  /\ CheckLoop(c, ndata[c], nidx[c])
  /\ UNCHANGED <<now, rule_enabled, channels, channel_enabled, failed_sends>>
  /\ UNCHANGED <<mvars, gvars, inference_count, pvars, rvars>>

\* what a channel's send_notification can answer: LogChannel and WebhookChannel catch every
\* exception and return False; a channel of another class may raise
ChannelResults(ch) == IF ch = "log" THEN {"ok", "false"} ELSE {"ok", "false", "raise"}

\* gather without return_exceptions: the first exception ends the wait and the other send
\* tasks are never collected
ChannelSend_AbortOnRaise(c, ch, o) ==
  /\ npc[c] = "gather"
  /\ o \in ChannelResults(ch)
  /\ ch \in npending[c]
  /\ npending' = [npending EXCEPT ![c] = IF o = "raise" THEN {} ELSE @ \ {ch}]
  /\ nresults' = [nresults EXCEPT ![c][ch] = o]
  /\ UNCHANGED <<now, rule_enabled, last_triggered, notifications, next_nid, channels, channel_enabled, total_sent, failed_sends, npc, ndata, nidx, nsent, fire_log>>
  /\ UNCHANGED <<mvars, gvars, inference_count, pvars, rvars>>

\* one send task of gather runs channel.send_notification: True, False or an exception
ChannelSend(c, ch, o) ==
  /\ npc[c] = "gather"
  /\ o \in ChannelResults(ch)
  /\ ch \in npending[c]
  /\ npending' = [npending EXCEPT ![c] = @ \ {ch}]
  /\ nresults' = [nresults EXCEPT ![c][ch] = o]
  /\ UNCHANGED <<now, rule_enabled, last_triggered, notifications, next_nid, channels, channel_enabled, total_sent, failed_sends, npc, ndata, nidx, nsent, fire_log>>
  /\ UNCHANGED <<mvars, gvars, inference_count, pvars, rvars>>

\* send_notification after gather returned: failures counted, subscribers called, return
SendFinish(c) ==
  /\ npc[c] = "gather"
  /\ npending[c] = {}
  /\ failed_sends' = failed_sends + Cardinality({ch \in Channels : nresults[c][ch] \in {"false", "raise"}})
  /\ npc' = [npc EXCEPT ![c] = IF nidx[c] > 0 THEN "check" ELSE "idle"]
  /\ nsent' = [nsent EXCEPT ![c] = NoNotification]
  /\ nresults' = [nresults EXCEPT ![c] = [ch \in Channels |-> "none"]]
  /\ UNCHANGED <<now, rule_enabled, last_triggered, notifications, next_nid, channels, channel_enabled, total_sent, ndata, nidx, npending, fire_log>>
  /\ UNCHANGED <<mvars, gvars, inference_count, pvars, rvars>>

\* NotificationSystem.enable_rule / disable_rule
SetRuleEnabled(r, e) ==
  /\ rule_enabled[r] # e
  /\ rule_enabled' = [rule_enabled EXCEPT ![r] = e]
  /\ UNCHANGED <<now, last_triggered, notifications, next_nid, channels, channel_enabled, total_sent, failed_sends, npc, ndata, nidx, nsent, npending, nresults, fire_log>>
  /\ UNCHANGED <<mvars, gvars, inference_count, pvars, rvars>>

RulesNext ==
  \/ Tick
  \/ \E c \in Callers, data \in DataInputs : CheckCall(c, data)
  \/ \E c \in Callers : CheckResume(c)
  \/ \E c \in Callers, ch \in Channels, o \in SendResults : ChannelSend(c, ch, o)
  \/ \E c \in Callers : SendFinish(c)
  \/ \E r \in Rules, e \in BOOLEAN : SetRuleEnabled(r, e)

\* rule evaluation by concurrent callers of check_and_notify while the clock runs
SpecRules == Init /\ [][RulesNext]_vars

\* data maps of a load event, with and without the keys the event rules' templates use
TemplateInputs ==
  {[cpu_percent |-> v, event |-> e, keys |-> k] :
     v \in {96}, e \in {"model_load_failed", "model_loaded"},
     k \in {{"model_name"}, {"model_name", "error_message"}}}

\* notifications still to be created by the loops under way over all_rules, and by one on data
Demand(data) ==
  Cardinality({<<c, i>> \in Callers \X (1..Len(all_rules)) :
                 nidx[c] > 0 /\ i >= nidx[c] /\ condition_func(all_rules[i], ndata[c])})
  + Cardinality({i \in 1..Len(all_rules) : condition_func(all_rules[i], data)})

\* NotificationSystem.check_and_notify is called with the data map of a load event
EventCheckCall(c, data) ==
  /\ npc[c] = "idle"
  /\ next_nid + Demand(data) <= MaxNotifications
  /\ CheckRules(all_rules, c, data, 1)
  /\ UNCHANGED <<now, rule_enabled, channels, channel_enabled, failed_sends>>
  /\ UNCHANGED <<mvars, gvars, inference_count, pvars, rvars>>

\* check_and_notify goes on with the next rule after its send_notification returned
EventCheckResume(c) ==
  /\ npc[c] = "check"
  /\ CheckRules(all_rules, c, ndata[c], nidx[c])
  /\ UNCHANGED <<now, rule_enabled, channels, channel_enabled, failed_sends>>
  /\ UNCHANGED <<mvars, gvars, inference_count, pvars, rvars>>

TemplatesNext ==
  \/ Tick
  \/ \E c \in Callers, data \in TemplateInputs : EventCheckCall(c, data)
  \/ \E c \in Callers : EventCheckResume(c)
  \/ \E c \in Callers, ch \in Channels : ChannelSend(c, ch, "ok")
  \/ \E c \in Callers : SendFinish(c)

\* check_and_notify on load events whose data maps may lack a template's keys
SpecTemplates == Init /\ [][TemplatesNext]_vars

\* NotificationSystem.add_channel with a channel constructed enabled or disabled
add_channel(ch, e) ==
  /\ ch \notin channels
  /\ channels' = channels \cup {ch}
  /\ channel_enabled' = [channel_enabled EXCEPT ![ch] = e]
  /\ UNCHANGED <<now, rule_enabled, last_triggered, notifications, next_nid, total_sent, failed_sends, npc, ndata, nidx, nsent, npending, nresults, fire_log>>
  /\ UNCHANGED <<mvars, gvars, inference_count, pvars, rvars>>

\* NotificationSystem.remove_channel
remove_channel(ch) ==
  /\ ch \in channels
  /\ channels' = channels \ {ch}
  /\ UNCHANGED <<now, rule_enabled, last_triggered, notifications, next_nid, channel_enabled, total_sent, failed_sends, npc, ndata, nidx, nsent, npending, nresults, fire_log>>
  /\ UNCHANGED <<mvars, gvars, inference_count, pvars, rvars>>

\* NotificationSystem.clear_notifications()
clear_notifications ==
  /\ notifications # <<>>
  /\ notifications' = <<>>
  /\ UNCHANGED <<now, rule_enabled, last_triggered, next_nid, channels, channel_enabled, total_sent, failed_sends, npc, ndata, nidx, nsent, npending, nresults, fire_log>>
  /\ UNCHANGED <<mvars, gvars, inference_count, pvars, rvars>>

\* the position of the first notification of the history with the given id, 0 when there is none
FirstWithId(id) ==
  LET hits == {i \in 1..Len(notifications) : notifications[i].id = id} IN
  IF hits = {} THEN 0 ELSE CHOOSE a \in hits : \A b \in hits : a <= b

\* NotificationSystem.acknowledge_notification on an id that is in the history
acknowledge_notification(id, user) ==
  /\ FirstWithId(id) # 0
  /\ LET i == FirstWithId(id) IN
     notifications' = [notifications EXCEPT ![i].acknowledged = TRUE,
                                            ![i].acknowledged_at = now,
                                            ![i].acknowledged_by = user]
  /\ UNCHANGED <<now, rule_enabled, last_triggered, next_nid, channels, channel_enabled, total_sent, failed_sends, npc, ndata, nidx, nsent, npending, nresults, fire_log>>
  /\ UNCHANGED <<mvars, gvars, inference_count, pvars, rvars>>

\* NotificationSystem.resolve_notification on an id that is in the history
resolve_notification(id) ==
  /\ FirstWithId(id) # 0
  /\ LET i == FirstWithId(id) IN
     notifications' = [notifications EXCEPT ![i].resolved = TRUE, ![i].resolved_at = now]
  /\ UNCHANGED <<now, rule_enabled, last_triggered, next_nid, channels, channel_enabled, total_sent, failed_sends, npc, ndata, nidx, nsent, npending, nresults, fire_log>>
  /\ UNCHANGED <<mvars, gvars, inference_count, pvars, rvars>>

DispatchNext ==
  \/ \E c \in Callers : CreateNotification(c)
  \/ \E c \in Callers, ch \in Channels, o \in SendResults : ChannelSend(c, ch, o)
  \/ \E c \in Callers : SendFinish(c)
  \/ \E e \in BOOLEAN : add_channel("webhook", e)
  \/ \E ch \in Channels : remove_channel(ch)
  \/ clear_notifications

\* concurrent senders of notifications over channels that succeed, fail and raise
SpecDispatch == Init /\ [][DispatchNext]_vars

AckNext ==
  \/ Tick
  \/ NotifyBudget(2) /\ CreateNotification(1)
  \/ \E ch \in Channels : ChannelSend(1, ch, "ok")
  \/ SendFinish(1)
  \/ \E id \in 1..MaxNotifications, user \in Users : acknowledge_notification(id, user)
  \/ \E id \in 1..MaxNotifications : resolve_notification(id)

\* notifications being acknowledged and resolved while the clock runs: one caller creates them
\* (one fewer than the budget) and the log channel delivers each
SpecAck == Init /\ [][AckNext]_vars

\* ================================================================= claims

Terminal == {"completed", "failed", "cancelled"}

\* C1: with the default ceiling of one simultaneously-Processing task, at most one task is
\* Processing in every reachable state.
C1_AtMostOneProcessing ==
  Cardinality({t \in Tasks : req_status[t] = "processing"}) <= 1

\* C2: a task cancelled before its worker began inference ends Cancelled and the engine is
\* never invoked for it.
C2_CancelBeforeInference ==
  \A t \in Tasks :
    (tpc[t] = "done" /\ cancelAt[t] \in {"scheduled", "queued", "sync_inputs", "sync_generate"})
      => (req_status[t] = "cancelled" /\ engineCalls[t] = 0)

\* C3: terminal status is sticky: no step changes a status that is Completed, Failed or Cancelled.
C3_TerminalSticky ==
  [][\A t \in Tasks : req_status[t] \in Terminal => req_status'[t] = req_status[t]]_vars

\* C4 as stated: every prompt whose trimmed length is in [3,500], submitted with default
\* parameters while the model is ready, is accepted.
C4_EveryInRangePromptAccepted ==
  (lastSubmit.result # "none" /\ lastSubmit.prompt.len >= PromptMinLen /\ lastSubmit.prompt.len <= PromptMaxLen)
    => lastSubmit.result = "accepted"

EngineReturned(t) == engineCalls[t] > 0 /\ tpc[t] # "inferring"

\* C4 amended: every prompt whose trimmed length is in [3,500] and that matches no banned
\* content, submitted with default parameters while the model is ready, is accepted; absent a
\* cancel request the task eventually is Completed or Failed; and no task remains Processing
\* after its engine call has returned.
C4_AcceptedAndFinishes ==
  /\ [](  (lastSubmit.result # "none" /\ lastSubmit.prompt.len >= PromptMinLen
            /\ lastSubmit.prompt.len <= PromptMaxLen /\ ~lastSubmit.prompt.banned)
          => (lastSubmit.result = "accepted" /\ req_status[lastSubmit.task] # "none"))
  /\ \A t \in Tasks : (req_status[t] = "pending") ~> (req_status[t] \in {"completed", "failed"} \/ cancelled[t])
  /\ \A t \in Tasks : EngineReturned(t) ~> (req_status[t] # "processing")
  /\ [](\A t \in Tasks : (tpc[t] = "done" /\ engineCalls[t] > 0) => req_status[t] # "processing")

\* C4 witness: a prompt of the maximal length was accepted and its task, never cancelled, completed.
C4_Witness ==
  /\ lastSubmit.result = "accepted"
  /\ lastSubmit.prompt.len = PromptMaxLen
  /\ req_status[lastSubmit.task] = "completed"
  /\ ~cancelled[lastSubmit.task]

AllReturned == \A p \in Callers : cpc[p] = "idle" /\ cret[p] \notin {"none", "CancelledError"}

\* C5 as stated: concurrent load calls on a model that is not loaded make exactly one load
\* attempt, whether it succeeds or fails, and all callers observe the same outcome.
C5_OneAttemptSameOutcome ==
  (AllReturned /\ loadCalls >= 1) => (loadCalls = 1 /\ \A p, q \in Callers : cret[p] = cret[q])

\* C5 amended: when the call that takes the lock first loads the model successfully, the
\* concurrent calls make exactly one load attempt and every caller observes success: a call
\* that returns after the calls before it all returned True returns True, and the loading
\* routine has run exactly once.  (When the first call fails, a later call finds the status
\* Error and makes an attempt of its own.)
C5_OneAttemptWhenFirstSucceeds ==
  [][\A q \in Callers :
       (/\ cret[q] = "none" /\ cret'[q] \notin {"none", "CancelledError"}
        /\ \E p \in Callers \ {q} : cret[p] = "True"
        /\ \A r \in Callers \ {q} : cret[r] \in {"none", "True", "CancelledError"})
       => (cret'[q] = "True" /\ loadCalls' = 1 /\ loadCalls = 1)]_vars

\* C5 witness: every caller has returned True and the loading routine ran once.
C5_Witness ==
  /\ \A p \in Callers : cpc[p] = "idle" /\ cret[p] = "True"
  /\ loadCalls = 1

\* the part of a call between its first and its last write of the lifecycle status
InTransition(p) == cpc[p] \in {"load_resources", "load_thread", "load_finish", "load_except", "unload_clean"}

\* C6: at most one load/unload transition proceeds at a time.
C6_OneTransitionAtATime ==
  Cardinality({p \in Callers : InTransition(p)}) <= 1

\* C6 witness: one caller is inside a load while another waits for the lock to unload.
C6_Witness ==
  \E p, q \in Callers : p # q /\ cpc[p] = "load_thread" /\ cpc[q] = "unload_wait"

ClaimedEdges ==
  { <<"not_loaded", "loading">>, <<"loading", "loaded">>, <<"loading", "error">>,
    <<"loaded", "unloading">>, <<"unloading", "not_loaded">>, <<"error", "loading">> }

C8_NotReadyThenAccepted ==
  [][/\ (nSubmit' # nSubmit /\ validate_prompt(lastSubmit'.prompt) = {}) =>
          IF is_ready
            THEN /\ lastSubmit'.result = "accepted"
                 /\ lastSubmit'.task \in active_requests' \ active_requests
            ELSE /\ lastSubmit'.result = "NotReady"
                 /\ active_requests' = active_requests
                 /\ completed_requests' = completed_requests
                 /\ engineCalls' = engineCalls
                 /\ tpc' = tpc
     /\ (\E p \in Callers : cpc[p] = "load_finish" /\ cret'[p] = "True") => is_ready'
    ]_vars

\* C8 witness: the last submit was rejected NotReady and a load has since made the model ready.
C8_Witness ==
  lastSubmit.result = "NotReady" /\ is_ready

\* C9: load_model on a model whose status is Loaded returns True without running the loading
\* routine and leaves status, name, loadedAt and lastError unchanged.
C9_LoadIdempotent ==
  [][\A p \in Callers :
       (cpc[p] = "load_check" /\ status = "loaded" /\ cpc'[p] # "load_check")
       => (cpc'[p] = "idle" /\ cret'[p] = "True" /\ loadCalls' = loadCalls /\ ModelState' = ModelState)]_vars

\* C9 witness: a load call for another model name holds the lock on a model that is Loaded.
C9_Witness ==
  \E p \in Callers : cpc[p] = "load_check" /\ status = "loaded" /\ carg[p] # NoName /\ carg[p] # name

SnapshotBad(s) == s.memory_percent > max_memory_usage \/ s.free_space_gb < MinFreeDiskGB

\* C10: a load whose resource reading shows memory utilization above the ceiling or free disk
\* below the floor is rejected with ResourceLimitExceededError, never runs the loading routine,
\* and leaves the model not ready.
C10_ResourceGate ==
  [][\A p \in Callers :
       /\ (cpc[p] = "load_resources" /\ cpc'[p] # "load_resources" /\ SnapshotBad(snapshot'))
            => (cpc'[p] = "load_except" /\ cexc'[p] = MsgResources /\ loadCalls' = loadCalls)
       /\ (cpc[p] = "load_except" /\ cexc[p] = MsgResources /\ cpc'[p] # "load_except")
            => (cret'[p] = "ResourceLimitExceededError" /\ loadCalls' = loadCalls
                /\ ~is_ready' /\ status' = "error")]_vars

\* C10 witness: a load is being rejected on a reading with free disk below the floor and
\* memory at the ceiling.
C10_Witness ==
  \E p \in Callers :
    /\ cpc[p] = "load_except" /\ cexc[p] = MsgResources
    /\ snapshot.free_space_gb < MinFreeDiskGB /\ snapshot.memory_percent = max_memory_usage

\* C11: a load that fails (an exception raised inside load_model) leaves the status Error and
\* the error message set to the captured message, with the partially loaded resources
\* released: neither model nor processor is held and is_ready is false.
C11_FailureCleansUp ==
  [][\A p \in Callers :
       (cpc[p] = "load_except" /\ cpc'[p] # "load_except")
       => (/\ status' = "error"
           /\ error_message' = cexc[p] /\ error_message' # None
           /\ ~model' /\ ~processor' /\ ~is_ready'
           /\ cret'[p] \in {"ModelLoadError", "ResourceLimitExceededError"})]_vars

\* C11 witness: the loading routine failed after it had set the processor and the model, and
\* its caller is in the except branch with both still held.
C11_Witness ==
  \E p \in Callers : cpc[p] = "load_except" /\ cexc[p] = MsgComponents /\ model /\ processor

\* the prompts the contract rejects: empty after trimming, shorter than 3, longer than 500, or banned
BadPrompt(pr) == pr.len = 0 \/ pr.len < 3 \/ pr.len > 500 \/ pr.banned

\* C12: a submit whose prompt is empty or whitespace-only, has a trimmed length below 3 or
\* above 500, or matches banned content is rejected ValidationFailed whether or not the model
\* is ready; it registers no task in the active or the completed set and invokes no engine.
C12_BadPromptRejected ==
  [][(nSubmit' # nSubmit /\ BadPrompt(lastSubmit'.prompt))
       => (/\ lastSubmit'.result = "ValidationFailed"
           /\ active_requests' = active_requests
           /\ completed_requests' = completed_requests
           /\ next_id' = next_id
           /\ req_status' = req_status
           /\ tpc' = tpc
           /\ engineCalls' = engineCalls)]_vars

\* C12 witness: a banned prompt of admissible length was rejected after an earlier submit had
\* been accepted by the model that is still loaded from its only load.
C12_Witness ==
  /\ lastSubmit.result = "ValidationFailed"
  /\ lastSubmit.prompt.banned /\ lastSubmit.prompt.len = PromptMaxLen
  /\ next_id = 1 /\ is_ready /\ loadCalls = 1 /\ loaded_at = 1

InRange(n, x) == x.k = "num" /\ x.v >= parameter_ranges[n].min /\ x.v <= parameter_ranges[n].max

\* the numeric inputs: Python floats and ints, NaN and infinity included
Numeric(x) == x.k \in {"num", "nan", "inf"}

\* C13: validation never rejects a numeric parameter for being out of range: a value below
\* the minimum becomes the minimum and a value above the maximum the maximum, each with a
\* warning, a missing field gets its default, and every cleaned numeric value is in range.
C13_ClampedIntoRange ==
  validation_result.called =>
    \A n \in ParamNames :
      /\ Numeric(params[n]) =>
           /\ ~validation_result.raised /\ n \notin validation_result.errors
           /\ InRange(n, validation_result.cleaned_params[n])
      /\ Below(params[n], parameter_ranges[n].min) =>
           /\ validation_result.cleaned_params[n] = Num(parameter_ranges[n].min)
           /\ n \in validation_result.warnings
      /\ Above(params[n], parameter_ranges[n].max) =>
           /\ validation_result.cleaned_params[n] = Num(parameter_ranges[n].max)
           /\ n \in validation_result.warnings
      /\ params[n] = Missing =>
           validation_result.cleaned_params[n] = Num(parameter_ranges[n].default)

\* C14: validation is idempotent: for every input that validates successfully, validating the
\* cleaned parameters again succeeds, returns the same cleaned values and records no warning.
C14_ValidationIdempotent ==
  revalidation_result.called =>
    /\ ~revalidation_result.raised /\ revalidation_result.valid
    /\ revalidation_result.cleaned_params = validation_result.cleaned_params
    /\ revalidation_result.warnings = {}

\* C14 witness: an input that was repaired in every way (values clamped at both ends, a float
\* top_k truncated, defaults applied, sample rate and format snapped, prompt trimmed) has been
\* validated twice.
C14_Witness ==
  /\ revalidation_result.called
  /\ params["duration"] = Num(1000) /\ params["top_p"] = Num(0 - 1) /\ params["top_k"] = Num(27)
  /\ params["guidance_scale"] = Missing
  /\ params["sample_rate"] = Num(31000) /\ params["output_format"] = "ogg"
  /\ params["prompt"].pad > 0
  /\ validation_result.warnings = {"duration", "top_p", "sample_rate", "output_format"}

\* the last n elements of a sequence
LastN(q, n) == IF Len(q) <= n THEN q ELSE SubSeq(q, Len(q) - n + 1, Len(q))

\* C15: the resource history never exceeds its capacity and keeps arrival order: it holds the
\* most recent appended snapshots, in the order they were appended; after capacity+K appends
\* its size is the capacity and the K oldest are gone.
C15_BoundedFifoHistory ==
  /\ Len(resource_history) <= history_size
  /\ resource_history = LastN(appended, history_size)
  /\ Len(appended) >= history_size => Len(resource_history) = history_size

\* C15 witness: two snapshots more than the capacity have been appended.
C15_Witness ==
  /\ Len(appended) = history_size + 2
  /\ Len(resource_history) = history_size
  /\ resource_history[1].timestamp = appended[3].timestamp

\* C16: a rule with cooldown C that fired at t0 does not fire again before t0 + C, whoever
\* calls check_and_notify and however often.
C16_CooldownRespected ==
  \A i, j \in 1..Len(fire_log) :
    (i < j /\ fire_log[i].rule = fire_log[j].rule)
      => fire_log[j].at >= fire_log[i].at + cooldown_minutes[fire_log[i].rule]

\* C16 witness: the rule with the two-minute cooldown fired and fired a second time exactly
\* when its cooldown had passed.
C16_Witness ==
  \E i, j \in 1..Len(fire_log) :
    /\ i < j /\ fire_log[i].rule = "cpu_critical" /\ fire_log[j].rule = "cpu_critical"
    /\ fire_log[j].at = fire_log[i].at + cooldown_minutes["cpu_critical"]

Last(q) == q[Len(q)]

\* C17: every notification passed to send_notification is appended to the history, whatever
\* the channels then answer, and the history never holds more than max_history entries, the
\* oldest being dropped first.
C17_AlwaysRecordedBounded ==
  /\ [](Len(notifications) <= max_history)
  /\ [][/\ total_sent' # total_sent =>
             /\ notifications' # <<>>
             /\ Last(notifications').id = next_nid'
             /\ notifications' = LastN(Append(notifications, Last(notifications')), max_history)
        /\ (nresults' # nresults \/ failed_sends' # failed_sends) => notifications' = notifications
       ]_vars

\* C17 witness: a notification whose delivery raised on one channel and failed on the other is
\* in a full history from which older notifications have been dropped.
C17_Witness ==
  \E c \in Callers :
    /\ npc[c] = "gather" /\ npending[c] = {}
    /\ nresults[c]["log"] = "false" /\ nresults[c]["webhook"] = "raise"
    /\ Len(notifications) = max_history /\ next_nid > max_history
    /\ \E i \in 1..Len(notifications) : notifications[i] = nsent[c]

\* the channels whose result gather has collected in the caller's send
Collected(c) == {ch \in Channels : nresults[c][ch] # "none"}

\* C18: a send attempts delivery on every channel that is enabled and on no other; a channel
\* that fails or raises is still followed by the attempts on the remaining channels, nothing is
\* raised to the caller, and each failed channel adds one to the failure counter.
C18_FanOutIsolated ==
  [][\A c \in Callers :
       /\ (npc[c] # "gather" /\ npc'[c] = "gather")
            => (npending'[c] = {ch \in channels : channel_enabled[ch]} /\ Collected(c)' = {})
       /\ (npc[c] = "gather" /\ npc'[c] = "gather")
            => (npending'[c] \cup Collected(c)' = npending[c] \cup Collected(c)
                /\ npending'[c] \cap Collected(c)' = {})
       /\ (npc[c] = "gather" /\ npc'[c] # "gather")
            => (/\ npending[c] = {}
                /\ npc'[c] \in {"idle", "check"}
                /\ failed_sends' = failed_sends
                     + Cardinality({ch \in Collected(c) : nresults[c][ch] \in {"false", "raise"}}))
    ]_vars

\* C18 witness: the webhook channel raised first and the log channel was attempted after it
\* and succeeded.
C18_Witness ==
  \E c \in Callers :
    /\ npc[c] = "gather" /\ npending[c] = {}
    /\ nresults[c]["webhook"] = "raise" /\ nresults[c]["log"] = "ok"

\* C19: acknowledging or resolving a notification a second time leaves it exactly as the first
\* application left it, and neither ever changes any other notification.
C19_AckResolveIdempotent ==
  [][\A i \in 1..Len(notifications) :
       (Len(notifications') = Len(notifications) /\ notifications'[i].id = notifications[i].id)
       => /\ notifications[i].acknowledged =>
               /\ notifications'[i].acknowledged
               /\ notifications'[i].acknowledged_at = notifications[i].acknowledged_at
               /\ notifications'[i].acknowledged_by = notifications[i].acknowledged_by
          /\ notifications[i].resolved =>
               /\ notifications'[i].resolved
               /\ notifications'[i].resolved_at = notifications[i].resolved_at
          /\ \A j \in 1..Len(notifications) :
               (j # i /\ notifications'[i] # notifications[i]) => notifications'[j] = notifications[j]
    ]_vars

\* C20: a task whose cancel was requested while its inference call was executing lets the call
\* complete, then discards the result (nothing is persisted and the task gets no result
\* path) and ends Cancelled, never Completed or Failed.
C20_CancelDuringInference ==
  \A t \in Tasks :
    (tpc[t] = "done" /\ cancelAt[t] = "inferring")
      => (req_status[t] = "cancelled" /\ ~result_path[t] /\ ~file_written[t])

\* C21: an exception raised by inference or persistence for an accepted task that has not been
\* cancelled finalizes the task Failed with a non-empty error message, which it keeps; and the
\* engine is invoked at most once per task.
C21_ExceptionFailsNoRetry ==
  [][\A t \in Tasks :
       /\ engineCalls'[t] <= 1
       /\ (tpc[t] = "raised" /\ ~cancelled[t])
            => (tpc'[t] \in {"raised", "done"}
                /\ (tpc'[t] = "done" /\ ~cancelled'[t]
                      => (req_status'[t] = "failed" /\ req_error'[t] # None)))
       /\ (tpc[t] = "done" /\ req_status[t] = "failed")
            => (req_status'[t] = "failed" /\ req_error'[t] = req_error[t])
    ]_vars

\* C21 witness: a task whose engine call was made and whose worker then met an exception is
\* finalized Failed with a message, never having been cancelled.
C21_Witness ==
  \E t \in Tasks :
    /\ tpc[t] = "done" /\ engineCalls[t] = 1 /\ cancelAt[t] = "never" /\ ~cancelled[t]
    /\ req_status[t] = "failed" /\ req_error[t] # None

\* C22: the progress of a task never decreases from one step to the next, whether the task
\* goes on, fails or is cancelled, and a Completed task has progress 100.
C22_ProgressMonotone ==
  [][\A t \in Tasks :
       /\ progress'[t] >= progress[t]
       /\ req_status'[t] = "completed" => progress'[t] = 100
    ]_vars

\* C22 witness: one task is Completed at progress 100 and another has failed while saving,
\* keeping the progress 90 it had reached.
C22_Witness ==
  \E t, u \in Tasks :
    /\ req_status[t] = "completed" /\ progress[t] = 100
    /\ tpc[u] = "done" /\ req_status[u] = "failed" /\ progress[u] = 90

\* the last n elements of a sequence, as a set
LastSet(q, n) == {q[i] : i \in {j \in 1..Len(q) : j > Len(q) - n}}

\* C23: the completed set holds at most max_completed_requests tasks, and they are the
\* max_completed_requests most recently finalized ones.
C23_MostRecentlyFinalized ==
  /\ Cardinality(completed_requests) <= max_completed_requests
  /\ completed_requests = LastSet(finalized, max_completed_requests)

\* C24: no task is in both the active and the completed set, and every task in the completed
\* set has status Completed, Failed or Cancelled.
C24_CompletedAreTerminal ==
  /\ active_requests \cap completed_requests = {}
  /\ \A t \in completed_requests : req_status[t] \in Terminal

\* C25: while the monitor is running, a sampling tick whose snapshot breaches a warning or
\* critical threshold gets a notification for the breach sent and recorded in the
\* notification history.
C25_BreachNotified ==
  [][(is_monitoring /\ samples' = samples + 1 /\ _check_thresholds(last_snapshot') # {})
       => (total_sent' = total_sent + 1 /\ notifications' # notifications)
    ]_vars

\* C26: no exception inside a tick stops the sampling loop: while monitoring is on the loop's
\* task stays alive, every tick appends its snapshot to the history, whatever went wrong in
\* it, and a started loop goes on to its next tick unless stop() is called.
C26_LoopNeverStops ==
  /\ [][/\ is_monitoring' => (monitor_task' = "running" \/ stray_loops' > 0)
        /\ samples' = samples + 1
             => (resource_history' # <<>> /\ Last(resource_history').timestamp = samples')
       ]_vars
  /\ \A n \in 0..(MaxTicks - 1) :
       (is_monitoring /\ samples = n) ~> (samples > n \/ ~is_monitoring)

\* C26 witness: the loop has gone through a tick whose sampling failed (the all-zero snapshot
\* is in the history) and then took a further tick, still monitoring.
C26_Witness ==
  /\ is_monitoring
  /\ Len(resource_history) >= 2
  /\ \E i \in 1..(Len(resource_history) - 1) :
       /\ resource_history[i].cpu_percent = 0
       /\ resource_history[i + 1].cpu_percent = cpu_critical

\* the window the last get_resource_trend call looked at
TrendWindow == RecentData(trend_result.minutes, trend_result.elapsed)

\* the values of the resource over the samples of a window; zero GPU memory in use is the value 0
SeriesValue(resource_type, snap) ==
  IF resource_type = "gpu" /\ snap.gpu_memory_used_mb = 0 THEN 0 ELSE ValueOf(resource_type, snap)
HasSeries(resource_type, w) ==
  resource_type = "gpu" => \A i \in 1..Len(w) : w[i].gpu_memory_used_mb # NoGpu
Increasing(resource_type, w) ==
  \A i \in 1..(Len(w) - 1) : SeriesValue(resource_type, w[i]) < SeriesValue(resource_type, w[i + 1])
Flat(resource_type, w) ==
  \A i \in 1..(Len(w) - 1) : SeriesValue(resource_type, w[i]) = SeriesValue(resource_type, w[i + 1])

C28_InsufficientIffFewerThanTwo ==
  trend_result.called =>
    LET r == trend_result.result
        insufficient == r.trend = "unknown" /\ r.change_rate = 0 /\ ~r.has_prediction IN
    /\ insufficient <=> Len(TrendWindow) < 2
    /\ Len(TrendWindow) >= 2 => (r.trend \in {"increasing", "decreasing", "stable"} /\ r.has_prediction)

C30_ModelStateOnlyUnderLock ==
  [][<<ModelState, inference_count>>' # <<ModelState, inference_count>>
       => (lock # NoCaller \/ lock' # NoCaller)
    ]_vars

\* C31: when load_model rejects a load at the resource gate, the error it raises names the
\* metric, memory utilization or free disk space, that failed the gate.
C31_RejectionNamesMetric ==
  \A p \in Callers :
    (cpc[p] = "load_except" /\ cexc[p] = MsgResources /\ snapshot.read)
      => OffendingMetric(snapshot) \in MetricsNamed(cexc[p])

\* the first rule of all_rules from index from on that triggers on data, 0 when none does
FirstTriggered(data, from) ==
  LET firing == {i \in from..Len(all_rules) : should_trigger(all_rules[i], data)} IN
  IF firing = {} THEN 0 ELSE CHOOSE a \in firing : \A b \in firing : a <= b

\* C32: when the loop of check_and_notify reaches an enabled rule outside its cooldown whose
\* predicate is true and whose templates name a key the data map lacks, the call does not end
\* there: a notification with the generic title and message is built for the rule, recorded
\* and dispatched, the rule's cooldown starts, and the loop goes on behind that rule.
C32_MissingVariableGeneric ==
  [][\A c \in Callers :
       LET data == IF npc[c] = "idle" THEN ndata'[c] ELSE ndata[c]
           from == IF npc[c] = "idle" THEN 1 ELSE nidx[c]
           i == FirstTriggered(data, from)
       IN (/\ npc[c] \in {"idle", "check"}
           /\ <<npc[c], nidx[c], ndata[c]>>' # <<npc[c], nidx[c], ndata[c]>>
           /\ i # 0
           /\ MissingVariable(all_rules[IF i = 0 THEN 1 ELSE i], data))
          => /\ next_nid' = next_nid + 1
             /\ total_sent' = total_sent + 1
             /\ Last(notifications').id = next_nid'
             /\ Last(notifications').source = all_rules[i]
             /\ Last(notifications').generic
             /\ last_triggered'[all_rules[i]] = now
             /\ npc'[c] \in {"gather", "check"}
             /\ nidx'[c] = i + 1
    ]_vars

\* C32 witness: the load-failure rule fired on a data map without error_message after the CPU
\* rules had fired on it, its generic notification went out, and the call has returned past the
\* last rule.
C32_Witness ==
  /\ \A c \in Callers : npc[c] = "idle"
  /\ Len(fire_log) = 3 /\ fire_log[3].rule = "model_load_error"
  /\ notifications # <<>> /\ Last(notifications).generic
  /\ Last(notifications).source = "model_load_error"
  /\ total_sent = 3

\* C33: start() turns a stopped monitor into a running one holding a sampling task and creates
\* no task on a running one; stop() on a running monitor leaves it not running and, when it
\* returns, holding no task; a monitor that is stopped is left so by stop().
C33_MonitorLifecycle ==
  [][/\ (~is_monitoring /\ is_monitoring') => (monitor_task' = "running" /\ stray_loops' = stray_loops)
     /\ (is_monitoring /\ is_monitoring' /\ stopping' = stopping)
          => (monitor_task' = monitor_task /\ stray_loops' = stray_loops)
     /\ (is_monitoring /\ ~is_monitoring') => monitor_task' \in {"cancelled", "none"}
     /\ (stopping' < stopping /\ ~is_monitoring)
          => (~is_monitoring' /\ monitor_task' = "none" /\ stray_loops' = stray_loops)
     /\ (~is_monitoring /\ ~is_monitoring' /\ stopping' = stopping) => monitor_task' = monitor_task
     /\ (monitor_task' = "running" /\ monitor_task # "running") => ~is_monitoring
    ]_vars

\* C33 witness: the monitor was started, sampled, was stopped, and the stop has returned: it is
\* not running and holds no task.
C33_Witness ==
  /\ ~is_monitoring /\ monitor_task = "none" /\ stopping = 0 /\ stray_loops = 0
  /\ samples > 0

\* the sampling loops that are alive: the one self.monitor_task refers to and the stray ones
AliveLoops == (IF monitor_task = "running" THEN 1 ELSE 0) + stray_loops

\* C36: however start() and stop() interleave, at most one sampling loop is alive, and while
\* no stop() is suspended at its await the monitor is running exactly when it holds a sampling
\* task.
C36_OneLoopAndFlagMatchesTask ==
  /\ AliveLoops <= 1
  /\ stopping = 0 => (is_monitoring <=> monitor_task = "running")

\* C34: cancel_request answers True exactly for an id of the active set and then sets the
\* request's cancel flag; for an id that is unknown or in the completed set it answers False
\* and no request's status or flag and neither set changes.
C34_CancelOnlyActive ==
  [][lastCancel' # lastCancel =>
       LET t == lastCancel'.task IN
       /\ lastCancel'.result <=> t \in active_requests
       /\ lastCancel'.result => cancelled'[t]
       /\ ~lastCancel'.result => (req_status' = req_status /\ cancelled' = cancelled)
       /\ active_requests' = active_requests
       /\ completed_requests' = completed_requests
    ]_vars

\* C34 witness: one request was cancelled while active, and a later cancel_request for a
\* request that had completed answered False and left it completed.
C34_Witness ==
  /\ lastCancel.found = "completed" /\ ~lastCancel.result
  /\ req_status[lastCancel.task] = "completed" /\ ~cancelled[lastCancel.task]
  /\ \E t \in Tasks : cancelled[t] /\ cancelAt[t] # "never"

\* C35: for every snapshot the threshold check raises, for each of CPU, memory, disk and GPU
\* memory, the critical alert when the value is at or above the critical threshold, else the
\* warning alert when it is at or above the warning threshold, else none: never both.
C35_OneAlertPerMetric ==
  LET s == last_snapshot IN
  /\ "cpu_critical" \in triggered <=> s.cpu_percent >= cpu_critical
  /\ "cpu_warning" \in triggered <=> (s.cpu_percent >= cpu_warning /\ s.cpu_percent < cpu_critical)
  /\ "memory_critical" \in triggered <=> s.memory_percent >= memory_critical
  /\ "memory_warning" \in triggered
       <=> (s.memory_percent >= memory_warning /\ s.memory_percent < memory_critical)
  /\ "disk_critical" \in triggered <=> s.disk_percent >= disk_critical
  /\ "disk_warning" \in triggered <=> (s.disk_percent >= disk_warning /\ s.disk_percent < disk_critical)
  /\ "gpu_memory_critical" \in triggered
       <=> (s.gpu_memory_used_mb # NoGpu /\ s.gpu_memory_used_mb >= gpu_memory_critical)
  /\ "gpu_memory_warning" \in triggered
       <=> (/\ s.gpu_memory_used_mb # NoGpu /\ s.gpu_memory_used_mb >= gpu_memory_warning
            /\ s.gpu_memory_used_mb < gpu_memory_critical)

\* C35 witness: a snapshot with the CPU on its critical threshold, memory on its warning
\* threshold, the disk just below its warning threshold and GPU memory on its critical
\* threshold raised exactly one alert for each of the three breaching metrics.
C35_Witness ==
  /\ last_snapshot.cpu_percent = cpu_critical /\ last_snapshot.memory_percent = memory_warning
  /\ last_snapshot.disk_percent = disk_warning - 1
  /\ last_snapshot.gpu_memory_used_mb = gpu_memory_critical
  /\ triggered = {"cpu_critical", "memory_warning", "gpu_memory_critical"}

\* the alert types the threshold check raises for a metric on the summary's snapshot
AlertsFor(critical, warning) ==
  _check_thresholds(summary_result.current_status) \cap {critical, warning}

\* C39: get_resource_summary lists the high-usage warning of CPU, memory or disk exactly when
\* the threshold check raises a warning or critical alert for that metric on the same
\* snapshot.
C39_SummaryAgreesWithAlerts ==
  summary_result.called =>
    /\ "High CPU usage" \in summary_result.health.warnings
         <=> AlertsFor("cpu_critical", "cpu_warning") # {}
    /\ "High memory usage" \in summary_result.health.warnings
         <=> AlertsFor("memory_critical", "memory_warning") # {}
    /\ "High disk usage" \in summary_result.health.warnings
         <=> AlertsFor("disk_critical", "disk_warning") # {}

\* C37: whenever the lock is free the status is neither loading nor unloading: every load or
\* unload that took the lock has left the status at not_loaded, loaded or error by the time it
\* releases the lock, whether it returned, raised or was cancelled.
C37_NoTransientStatusOutsideLock ==
  lock = NoCaller => status \notin {"loading", "unloading"}

\* C38: a request whose progress is 100 has status completed; no request that is processing,
\* failed or cancelled shows progress 100.
C38_FullProgressMeansCompleted ==
  \A t \in Tasks : progress[t] = 100 => req_status[t] = "completed"

\* the requests that have reached the status completed
CompletedTasks == {t \in Tasks : req_status[t] = "completed"}

\* C40: inference_count never decreases; it goes up by one in the step in which a request
\* finalizes completed and in no other step, so it always equals the number of requests that
\* have reached completed.
C40_InferenceCountCountsCompleted ==
  /\ [](inference_count = Cardinality(CompletedTasks))
  /\ [][/\ inference_count' >= inference_count
        /\ inference_count' # inference_count
             <=> \E t \in Tasks : /\ tpc[t] # "done" /\ tpc'[t] = "done"
                                  /\ req_status'[t] = "completed"
        /\ inference_count' - inference_count
             = Cardinality({t \in Tasks : tpc[t] # "done" /\ tpc'[t] = "done" /\ req_status'[t] = "completed"})
       ]_vars

\* C40 witness: of two finalized requests one completed and the other, cancelled while its
\* inference call ran, did not, and one inference is counted.
C40_Witness ==
  /\ inference_count = 1
  /\ \E t, u \in Tasks :
       /\ tpc[t] = "done" /\ req_status[t] = "completed"
       /\ tpc[u] = "done" /\ req_status[u] = "cancelled" /\ cancelAt[u] = "inferring"

====
